---- MODULE Spec2Model ----
(***************************************************************************)
(* State-machine model of the NHTSA defect-analysis ETL pipeline:          *)
(*   etl/state_manager.py          StateManager (etl_state key/value rows) *)
(*   etl/fetch_complaints_api.py   load_complaints (incremental API path)  *)
(*   etl/fetch_complaints_ftp.py   load_complaints_to_db (flat-file path)  *)
(*   etl/fetch_recalls.py          fetch_new_recalls                       *)
(*   etl/load_postgres.py          insert_recalls, refresh_analytical_...  *)
(*   etl/critical_vehicle_alert.py main, hash_payload, send_email          *)
(*   etl/run_etl.py                main (the five-step pipeline)           *)
(*                                                                         *)
(* Every action is one whole function call of the source, with its         *)
(* database transaction outcome (commit / rollback) and the exception      *)
(* that ends it drawn from the outcomes the environment can produce.       *)
(***************************************************************************)
EXTENDS Integers, Sequences, FiniteSets, Bags, TLC

\* ------------------------------------------------------------------ bounds
\* Number of process invocations (pipeline runs and stand-alone entry points).
MaxRuns == 2

\* ------------------------------------------------------- program constants
MAX_VEHICLES == 50
RecallVehicleLimit == 20
AlertName == "critical_vehicle_risk"

\* --------------------------------------------------------------- universe
\* Python's None / SQL NULL / a key with no row.
Absent == "<absent>"

\* The vehicles (MAKETXT, MODELTXT, YEARTXT) present in the database.
V1 == [make |-> "FORD", model |-> "F150", year |-> 2021]
V2 == [make |-> "KIA", model |-> "SOUL", year |-> 2022]
Vehicles == {V1, V2}

\* Complaint objects of the API's "results" list: a JSON object is a record,
\* a key the object lacks is a field the record lacks.
OdiNumbers == {1001}
ComplaintObjects ==
    [odiNumber : OdiNumbers, summary : {"s"}] \cup [summary : {"s"}]

\* Recall objects of the API's "results" list.
CampaignNumbers == {"21V001"}
RecallObjects(v) ==
    [NHTSACampaignNumber : CampaignNumbers, Make : {v.make},
     Model : {v.model}, ModelYear : {v.year}]
      \cup [Make : {v.make}, Model : {v.model}, ModelYear : {v.year}]

\* The result lists of one request: empty or one object. Two vehicles that
\* return the same identifier repeat it inside one batch.
ResultLists(S) == {<<>>} \cup {<<x>> : x \in S}

\* What the remote API holds: per vehicle, the list it would return.
ComplaintSources == [Vehicles -> ResultLists(ComplaintObjects)]
RecallSources ==
    {f \in [Vehicles -> UNION {ResultLists(RecallObjects(v)) : v \in Vehicles}] :
        \A v \in Vehicles : f[v] \in ResultLists(RecallObjects(v))}
NoResults == [v \in Vehicles |-> <<>>]

\* Historic rows of flat_cmpl per vehicle that the model does not track one
\* by one (their cmplids are outside OdiNumbers and pairwise distinct).
\* Both vehicles above the 50-complaint floor, or only V1.
IngestBacklogs ==
    { (V1 :> 600) @@ (V2 :> 250),
      (V1 :> 250) @@ (V2 :> 40) }
\* The same, and two vehicles of equal count (either row order).
AlertBacklogs == IngestBacklogs \cup { (V1 :> 250) @@ (V2 :> 250) }

\* ---------------------------------------------------------------- helpers
\* dict.get(key, default)
Get(obj, key, default) == IF key \in DOMAIN obj THEN obj[key] ELSE default

\* Python str(obj.get(key)): str(None) is the four-letter string "None".
StrGet(obj, key) == IF key \in DOMAIN obj THEN ToString(obj[key]) ELSE "None"

\* Python truthiness of a string-or-None.
Truthy(x) == x # Absent /\ x # ""

Range(s) == {s[i] : i \in DOMAIN s}

RECURSIVE Flatten(_)
Flatten(ss) == IF ss = <<>> THEN <<>> ELSE Head(ss) \o Flatten(Tail(ss))

\* All orderings of a finite set as sequences.
Perms(S) ==
    {p \in [1..Cardinality(S) -> S] : \A x \in S : \E i \in DOMAIN p : p[i] = x}

\* Rows of a table (a bag of rows) and the values of one column.
Rows(t) == BagToSet(t)
Column(t, col) == {r[col] : r \in Rows(t)}
\* COUNT(*) over the rows of t that are in S, every copy counted.
RECURSIVE CountRows(_, _)
CountRows(t, S) ==
    IF S = {} THEN 0
    ELSE LET r == CHOOSE x \in S : TRUE
         IN CopiesIn(r, t) + CountRows(t, S \ {r})
\* The rows of t about vehicle v, in flat_cmpl's and in flat_rcl's columns.
ComplaintsOf(t, v) ==
    {r \in Rows(t) : r.maketxt = v.make /\ r.modeltxt = v.model /\ r.yeartxt = v.year}
RecallsOf(t, v) ==
    {r \in Rows(t) : r.MAKETXT = v.make /\ r.MODELTXT = v.model /\ r.YEARTXT = v.year}
InsertRow(t, r) == t (+) SetToBag({r})

\* ------------------------------------------------------------------ state
VARIABLES
    pc,                   \* position of run_etl.main: "idle" or the next step
    runs,                 \* invocations started so far
    backlog,              \* flat_cmpl: untracked historic rows per vehicle
    flat_cmpl,            \* flat_cmpl: bag of tracked complaint rows
    flat_rcl,             \* flat_rcl: bag of recall rows
    etl_state,            \* public.etl_state: bag of (key, value) rows
    recalls,              \* run_etl.main's local `recalls` between steps 2 and 3
    vehicle_risk_scores,  \* derived table, in physical row order
    alert_state,          \* public.alert_state: alert_name -> last_payload_hash
    last,                 \* history: the call that produced this state
    run,                  \* history: what the current pipeline run fetched
    delivered,            \* history: digests whose e-mail was handed to SMTP
    alertLog,             \* history: the latest alert run and the one before
    probe,                \* history: input and result of the latest pure computation
    derived,              \* the five other derived tables, and the tables dropped
    workers,              \* the concurrent load_complaints processes, each at its step
    alerts                \* the concurrent critical_vehicle_alert.main processes

vars == <<pc, runs, backlog, flat_cmpl, flat_rcl, etl_state, recalls,
          vehicle_risk_scores, alert_state, last, run, delivered, alertLog,
          probe,
          derived,
          workers,
          alerts>>

\* Every variable but probe.
OtherVars ==
    <<pc, runs, backlog, flat_cmpl, flat_rcl, etl_state, recalls,
      vehicle_risk_scores, alert_state, last, run, delivered, alertLog, derived,
      workers, alerts>>

\* --------------------------------------------------------- StateManager
\* public.etl_state is a bag of rows (key, value); updated_at is not kept.
\* StateManager.get: SELECT value ... WHERE key = %s and fetchone(): the value
\* of a row of the key, or None when the key has no row.
StateRows(st, key) == {r \in Rows(st) : r.key = key}
sm_has(st, key) == StateRows(st, key) # {}
sm_get(st, key) ==
    IF StateRows(st, key) # {} THEN (CHOOSE r \in StateRows(st, key) : TRUE).value
    ELSE Absent

\* Variant: a plain INSERT, without the ON CONFLICT clause.
sm_set_PlainInsert(st, key, value) == InsertRow(st, [key |-> key, value |-> value])

\* The statement of StateManager.set, committed at once: INSERT ... ON CONFLICT
\* (key) DO UPDATE SET value = EXCLUDED.value. value is the text str(value).
sm_set(st, key, value) ==
    IF StateRows(st, key) = {} THEN InsertRow(st, [key |-> key, value |-> value])
    ELSE LET kept == {r \in Rows(st) : r.key # key}
             row == [key |-> key, value |-> value]
         IN [r \in kept \cup {row} |-> IF r = row THEN 1 ELSE st[r]]

\* Python values handed to StateManager.set: a str or an int.
PyStr(x) == IF "int" \in DOMAIN x THEN ToString(x.int) ELSE x.str

\* StateManager.set(key, value): the upsert of (key, str(value)).
StateManager_set(st, key, value) == sm_set(st, key, PyStr(value))

\* json.dumps(list(seen)) and set(json.loads(raw)): the stored text is a JSON
\* list of strings; the model keeps it as the set the text denotes.
JsonDumpsList(seen) == seen
JsonLoadsSet(raw) == raw

\* int(text) for the decimal text of a small natural number.
ParseInt(text) ==
    CHOOSE n \in 0..(2 * Cardinality(CampaignNumbers) + 1) : ToString(n) = text

\* ------------------------------------------------- complaint ingestion
\* Variant without the try/except: a transport exception escapes.
fetch_complaints_NoExcept(src, v, http) ==
    [raised |-> (http = "exception"), requests |-> 1,
     results |-> IF http = "200" THEN src[v] ELSE <<>>]

\* fetch_complaints: one GET. The try/except turns any exception into [], and
\* a non-200 status falls through to the same return []; nothing is raised.
\* requests is the number of GETs the call made.
fetch_complaints(src, v, http) ==
    [raised |-> FALSE, requests |-> 1,
     results |-> IF http = "200" THEN src[v] ELSE <<>>]

\* The vehicle query of load_complaints over vehicle_risk_scores: WHERE,
\* ORDER BY total_complaints DESC, LIMIT MAX_VEHICLES. Every list the query
\* may return: rows of equal total_complaints come in either order.
ComplaintTargets(risk) ==
    LET hit == SelectSeq(risk, LAMBDA r :
                   r.YEARTXT >= 2020 /\ r.YEARTXT <= 2024 /\ r.total_complaints > 50)
        kept == IF Len(hit) < MAX_VEHICLES THEN Len(hit) ELSE MAX_VEHICLES
        orders == {o \in [DOMAIN hit -> DOMAIN hit] :
                     /\ \A i, j \in DOMAIN hit : i # j => o[i] # o[j]
                     /\ \A i \in 1..(Len(hit) - 1) :
                            hit[o[i]].total_complaints
                                >= hit[o[i + 1]].total_complaints}
    IN { [i \in 1..kept |->
            [make |-> hit[o[i]].MAKETXT, model |-> hit[o[i]].MODELTXT,
             year |-> hit[o[i]].YEARTXT]] : o \in orders }

\* The row tuple load_complaints builds for complaint c of vehicle v (the
\* fire, deaths and ldate columns, which no table of the model reads, are
\* left out).
ComplaintRow(odi, v, c) ==
    [cmplid |-> odi, maketxt |-> v.make, modeltxt |-> v.model,
     yeartxt |-> v.year, cdescr |-> Get(c, "summary", Absent),
     compdesc |-> Get(c, "components", Absent),
     crash |-> IF Truthy(Get(c, "crash", Absent)) THEN "Y" ELSE "N",
     injured |-> Get(c, "numberOfInjuries", 0)]

\* Variant of the loop that never consults seen_odis.
RECURSIVE ScanComplaints_NoSeenFilter(_, _, _)
ScanComplaints_NoSeenFilter(pairs, rows, seen) ==
    IF pairs = <<>> THEN [rows |-> rows, seen |-> seen]
    ELSE LET v == Head(pairs)[1]
             c == Head(pairs)[2]
             odi == StrGet(c, "odiNumber")
         IN ScanComplaints_NoSeenFilter(Tail(pairs),
                                        Append(rows, ComplaintRow(odi, v, c)),
                                        seen \cup {odi})

\* The dedup loop of load_complaints over the fetched (vehicle, complaint)
\* pairs, in fetch order: skip what is in seen_odis, else queue and remember.
RECURSIVE ScanComplaints(_, _, _)
ScanComplaints(pairs, rows, seen) ==
    IF pairs = <<>> THEN [rows |-> rows, seen |-> seen]
    ELSE LET v == Head(pairs)[1]
             c == Head(pairs)[2]
             odi == StrGet(c, "odiNumber")
         IN IF ~Truthy(odi) \/ odi \in seen
            THEN ScanComplaints(Tail(pairs), rows, seen)
            ELSE ScanComplaints(Tail(pairs),
                                Append(rows, ComplaintRow(odi, v, c)),
                                seen \cup {odi})

\* Variant: a plain INSERT, without the NOT EXISTS guard.
InsertIfNotExists_NoGuard(t, r) == InsertRow(t, r)

\* Variant that replaces the stored row of the cmplid by the new one.
InsertIfNotExists_Overwrite(t, r) ==
    LET kept == {x \in Rows(t) : x.cmplid # r.cmplid}
    IN [x \in kept \cup {r} |-> IF x = r THEN 1 ELSE t[x]]

\* INSERT ... SELECT ... WHERE NOT EXISTS (SELECT 1 ... WHERE cmplid = %s)
InsertIfNotExists(t, r) ==
    IF \E x \in Rows(t) : x.cmplid = r.cmplid THEN t ELSE InsertRow(t, r)

\* cursor.executemany: the statements run one after another in one transaction.
RECURSIVE ExecuteMany(_, _)
ExecuteMany(t, rows) ==
    IF rows = <<>> THEN t
    ELSE ExecuteMany(InsertIfNotExists(t, Head(rows)), Tail(rows))

\* ---------------------------------------------------- analytics refresh
\* COUNT(*) of the flat_cmpl rows of vehicle v, historic rows included.
ComplaintsCounted(bl, cmpl, v) == bl[v] + CountRows(cmpl, ComplaintsOf(cmpl, v))

\* vehicle_risk_summary: one row per (make, model, year) of flat_cmpl with its
\* complaint count and the number of flat_rcl rows of the same vehicle.
vehicle_risk_summary(bl, cmpl, rcl) ==
    { [MAKETXT |-> v.make, MODELTXT |-> v.model, YEARTXT |-> v.year,
       total_complaints |->
           bl[v] + CountRows(cmpl, ComplaintsOf(cmpl, v)),
       total_recalls |->
           CountRows(rcl, RecallsOf(rcl, v))]
      : v \in {w \in Vehicles :
                 bl[w] + CountRows(cmpl, ComplaintsOf(cmpl, w)) > 0} }

\* Variant of the CASE whose HIGH branch is tested first.
risk_category_HighFirst(total_complaints, total_recalls) ==
    IF total_recalls = 0 /\ total_complaints > 200 THEN "HIGH"
    ELSE IF total_recalls = 0 /\ total_complaints > 500 THEN "CRITICAL"
    ELSE IF total_complaints > total_recalls * 10 THEN "MEDIUM"
    ELSE "LOW"

\* The CASE expression of the vehicle_risk_scores rebuild.
risk_category(total_complaints, total_recalls) ==
    IF total_recalls = 0 /\ total_complaints > 500 THEN "CRITICAL"
    ELSE IF total_recalls = 0 /\ total_complaints > 200 THEN "HIGH"
    ELSE IF total_complaints > total_recalls * 10 THEN "MEDIUM"
    ELSE "LOW"

\* Variant of the SELECT without the complaint-volume floor.
RiskScoreRows_NoFloor(summary) ==
    { [MAKETXT |-> r.MAKETXT, MODELTXT |-> r.MODELTXT, YEARTXT |-> r.YEARTXT,
       total_complaints |-> r.total_complaints,
       total_recalls |-> r.total_recalls,
       risk_category |-> risk_category(r.total_complaints, r.total_recalls)]
      : r \in {x \in summary : x.YEARTXT >= 2020 /\ x.YEARTXT <= 2024} }

\* The rows CREATE TABLE vehicle_risk_scores AS SELECT ... selects.
RiskScoreRows(summary) ==
    { [MAKETXT |-> r.MAKETXT, MODELTXT |-> r.MODELTXT, YEARTXT |-> r.YEARTXT,
       total_complaints |-> r.total_complaints,
       total_recalls |-> r.total_recalls,
       risk_category |-> risk_category(r.total_complaints, r.total_recalls)]
      : r \in {x \in summary : x.YEARTXT >= 2020 /\ x.YEARTXT <= 2024
                                 /\ x.total_complaints > 50} }

\* ORDER BY total_complaints DESC: every row order the sort may leave, rows of
\* equal count in either order.
RiskScoreTables(summary) ==
    {t \in Perms(RiskScoreRows(summary)) :
        \A i \in 1..(Len(t) - 1) : t[i].total_complaints >= t[i + 1].total_complaints}

\* The other five derived tables. The historic rows have COMPDESC NULL,
\* CRASH 'N' and INJURED 0. The crash, fire, injury and death sums of
\* component_analysis and yearly_trends are left out of their rows. The
\* tables are sets of rows; no step of the pipeline reads their order.
InYearRange(v) == v.year >= 2020 /\ v.year <= 2024
ExcludedMakes == {"UNKNOWN", "FIRESTONE", "GOODYEAR"}

RECURSIVE SumComplaints(_, _, _)
SumComplaints(bl, cmpl, S) ==
    IF S = {} THEN 0
    ELSE LET v == CHOOSE x \in S : TRUE
         IN ComplaintsCounted(bl, cmpl, v) + SumComplaints(bl, cmpl, S \ {v})

\* ORDER BY col DESC LIMIT n over a set of rows: every result the statement
\* may build. The n rows kept are ones no row left out exceeds in col; which
\* of the rows that tie at the cut are kept is not determined.
KeepTop(rows, col, n) ==
    IF Cardinality(rows) <= n THEN {rows}
    ELSE {S \in SUBSET rows :
            /\ Cardinality(S) = n
            /\ \A a \in S, b \in rows \ S : a[col] >= b[col]}

\* GROUP BY COMPDESC over the rows in the year range whose make is not
\* excluded: the historic rows (COMPDESC NULL) and the tracked rows by the
\* COMPDESC they were stored with.
ComponentGroups(bl, cmpl) ==
    LET historic == SumComplaints(bl, EmptyBag, {v \in Vehicles :
                        InYearRange(v) /\ v.make \notin ExcludedMakes})
        counted == {r \in Rows(cmpl) :
                      /\ r.yeartxt >= 2020 /\ r.yeartxt <= 2024
                      /\ r.maketxt \notin ExcludedMakes}
        total(d) == CountRows(cmpl, {r \in counted : r.compdesc = d})
                      + (IF d = Absent THEN historic ELSE 0)
    IN { [COMPDESC |-> d, total_complaints |-> total(d)]
         : d \in {r.compdesc : r \in counted}
                   \cup (IF historic > 0 THEN {Absent} ELSE {}) }

\* The groups ORDER BY total_complaints DESC LIMIT 50: the tables the
\* statement may build.
component_analysis(bl, cmpl) ==
    KeepTop(ComponentGroups(bl, cmpl), "total_complaints", 50)

yearly_trends(bl, cmpl) ==
    { [year |-> y,
       total_complaints |->
           SumComplaints(bl, cmpl, {v \in Vehicles : v.year = y})]
      : y \in {v.year : v \in {w \in Vehicles :
                   InYearRange(w) /\ ComplaintsCounted(bl, cmpl, w) > 0}} }

\* GROUP BY the (MAKETXT, MODELTXT, YEARTXT) values stored in flat_rcl,
\* whether or not a complaint names such a vehicle; HAVING COUNT(*) > 1;
\* ORDER BY recall_count DESC LIMIT 100: the tables the statement may build.
top_recalled_vehicles(rcl) ==
    LET inRange == {r \in Rows(rcl) : r.YEARTXT >= 2020 /\ r.YEARTXT <= 2024}
        of(g) == {r \in inRange : <<r.MAKETXT, r.MODELTXT, r.YEARTXT>> = g}
        having == { [MAKETXT |-> g[1], MODELTXT |-> g[2], YEARTXT |-> g[3],
                     recall_count |-> CountRows(rcl, of(g))]
                    : g \in {h \in {<<r.MAKETXT, r.MODELTXT, r.YEARTXT>> : r \in inRange} :
                               CountRows(rcl, of(h)) > 1} }
    IN KeepTop(having, "recall_count", 100)

\* rank_in_year <= 10 for every year: ROW_NUMBER() OVER (PARTITION BY YEARTXT
\* ORDER BY complaints DESC) numbers the vehicles of one year, those with
\* equal complaints in an order that is not determined, so the ten kept are
\* one of the choices of KeepTop. Each result is the set of vehicles kept.
InTop10OfYear(bl, cmpl) ==
    LET aggregates(y) == { [v |-> v, complaints |-> ComplaintsCounted(bl, cmpl, v)]
                           : v \in {w \in Vehicles :
                                      /\ InYearRange(w) /\ w.year = y
                                      /\ ComplaintsCounted(bl, cmpl, w) > 0} }
        years == {v.year : v \in {w \in Vehicles : InYearRange(w)}}
        ranked(y) == KeepTop(aggregates(y), "complaints", 10)
        picks == {f \in [years -> UNION {ranked(y) : y \in years}] :
                    \A y \in years : f[y] \in ranked(y)}
    IN { {a.v : a \in UNION {f[y] : y \in years}} : f \in picks }

\* GROUP BY MAKETXT, MODELTXT over the ranked rows, HAVING COUNT(DISTINCT
\* YEARTXT) >= 3: the tables the statement may build.
repeat_offenders(bl, cmpl) ==
    { LET of(mk, mo) == {v \in top : v.make = mk /\ v.model = mo}
      IN { [MAKETXT |-> g[1], MODELTXT |-> g[2],
            years_in_top10 |-> Cardinality({v.year : v \in of(g[1], g[2])}),
            total_complaints |-> SumComplaints(bl, cmpl, of(g[1], g[2]))]
           : g \in {h \in {<<v.make, v.model>> : v \in top} :
                      Cardinality({v.year : v \in of(h[1], h[2])}) >= 3} }
      : top \in InTop10OfYear(bl, cmpl) }

\* The component_costs groups (the same GROUP BY, without a LIMIT) with
\* COUNT(*) * 5000 + crashes * 50000 + SUM(INJURED) * 100000 and a tenth of
\* it, ORDER BY estimated_cost DESC LIMIT 50: the tables the statement may
\* build.
component_cost_impact(bl, cmpl) ==
    LET of(d) == {r \in Rows(cmpl) :
                    /\ r.yeartxt >= 2020 /\ r.yeartxt <= 2024
                    /\ r.maketxt \notin ExcludedMakes
                    /\ r.compdesc = d}
        RECURSIVE SumInjured(_)
        SumInjured(S) ==
            IF S = {} THEN 0
            ELSE LET r == CHOOSE x \in S : TRUE
                 IN r.injured * CopiesIn(r, cmpl) + SumInjured(S \ {r})
        cost(g) == g.total_complaints * 5000
                     + CountRows(cmpl, {r \in of(g.COMPDESC) : r.crash = "Y"}) * 50000
                     + SumInjured(of(g.COMPDESC)) * 100000
        component_costs ==
            { [COMPDESC |-> g.COMPDESC, total_complaints |-> g.total_complaints,
               estimated_cost |-> cost(g),
               savings_if_reduced_10pct |-> cost(g) \div 10]
              : g \in ComponentGroups(bl, cmpl) }
    IN KeepTop(component_costs, "estimated_cost", 50)

\* The order in which refresh_analytical_tables drops and rebuilds.
RefreshOrder ==
    <<"vehicle_risk_scores", "component_analysis", "yearly_trends",
      "top_recalled_vehicles", "repeat_offenders", "component_cost_impact">>
OtherDerived == {RefreshOrder[i] : i \in 2..Len(RefreshOrder)}

\* The five other tables as the CREATE TABLE ... AS statements may rebuild
\* them from the raw tables (one record for each choice the LIMITs and the
\* ROW_NUMBER leave open); none dropped.
DerivedTables(bl, cmpl, rcl) ==
    { [tables |->
          [component_analysis |-> ca,
           yearly_trends |-> yearly_trends(bl, cmpl),
           top_recalled_vehicles |-> tr,
           repeat_offenders |-> ro,
           component_cost_impact |-> ci],
       dropped |-> {}]
      : ca \in component_analysis(bl, cmpl),
        tr \in top_recalled_vehicles(rcl),
        ro \in repeat_offenders(bl, cmpl),
        ci \in component_cost_impact(bl, cmpl) }

\* The six derived tables as one catalog: name -> contents, and the names of
\* the tables that do not exist.
Catalog(risk, d) ==
    [tables |-> [n \in DOMAIN d.tables \cup {"vehicle_risk_scores"} |->
                    IF n = "vehicle_risk_scores" THEN risk ELSE d.tables[n]],
     dropped |-> d.dropped]

\* The catalog as the refresh's own connection sees it when statement failAt
\* (1..12: DROP, CREATE of table 1, DROP, CREATE of table 2, ...) raises;
\* failAt = 0 or 13: all twelve ran.
ExecuteRefresh(old, new, failAt) ==
    LET ran(k) == failAt = 0 \/ failAt > k
        at(n) == CHOOSE i \in DOMAIN RefreshOrder : RefreshOrder[i] = n
    IN [tables |-> [n \in DOMAIN old.tables |->
                      IF ran(2 * at(n)) THEN new.tables[n]
                      ELSE IF ran(2 * at(n) - 1) THEN <<>>
                      ELSE old.tables[n]],
        dropped |-> (old.dropped \cup {n \in DOMAIN old.tables :
                                         ran(2 * at(n) - 1)})
                      \ {n \in DOMAIN old.tables : ran(2 * at(n))}]

\* Variant with every statement committed as it runs.
refresh_commit_Autocommit(old, new, failAt) == ExecuteRefresh(old, new, failAt)

\* What readers see after refresh_analytical_tables: the statements run in
\* one transaction, committed after the twelfth; an exception before that
\* leaves the function with the transaction open and it is rolled back.
refresh_commit(old, new, failAt) ==
    IF failAt \in 1..12 THEN old ELSE ExecuteRefresh(old, new, failAt)

\* -------------------------------------------------------------- alerting
\* ORDER BY k DESC over <<k, row>> pairs read in physical order (insertion
\* sort; rows of equal key keep their order).
RECURSIVE InsertDesc(_, _)
InsertDesc(sorted, p) ==
    IF sorted = <<>> THEN <<p>>
    ELSE IF Head(sorted)[1] >= p[1]
         THEN <<Head(sorted)>> \o InsertDesc(Tail(sorted), p)
         ELSE <<p>> \o sorted

RECURSIVE OrderByDesc(_)
OrderByDesc(pairs) ==
    IF pairs = <<>> THEN <<>>
    ELSE InsertDesc(OrderByDesc(SubSeq(pairs, 1, Len(pairs) - 1)), pairs[Len(pairs)])

Limit(rows, n) == SubSeq(rows, 1, IF Len(rows) < n THEN Len(rows) ELSE n)

\* ROUND((total_complaints::FLOAT / total_recalls)::NUMERIC, 1), in tenths.
RatioTenths(r) ==
    (20 * r.total_complaints + r.total_recalls) \div (2 * r.total_recalls)

\* str() of a NUMERIC of scale 1 held in tenths: "250.0".
DecimalText(tenths) == ToString(tenths \div 10) \o "." \o ToString(tenths % 10)

\* get_zero_recall_vehicles: (make, model, year, total_complaints) tuples.
get_zero_recall_vehicles(risk) ==
    LET hit == SelectSeq(risk, LAMBDA r :
                   r.total_recalls = 0 /\ r.risk_category \in {"HIGH", "CRITICAL"})
        top == Limit(OrderByDesc([i \in DOMAIN hit |->
                                     <<hit[i].total_complaints, hit[i]>>]), 5)
    IN [i \in DOMAIN top |->
          <<top[i][2].MAKETXT, top[i][2].MODELTXT, ToString(top[i][2].YEARTXT),
            ToString(top[i][2].total_complaints)>>]

\* get_ratio_critical_vehicles: (make, model, year, rounded ratio) tuples.
get_ratio_critical_vehicles(risk) ==
    LET hit == SelectSeq(risk, LAMBDA r :
                   r.total_recalls > 0
                   /\ r.total_complaints >= 100 * r.total_recalls)
        top == Limit(OrderByDesc([i \in DOMAIN hit |->
                                     <<RatioTenths(hit[i]), hit[i]>>]), 10)
    IN [i \in DOMAIN top |->
          <<top[i][2].MAKETXT, top[i][2].MODELTXT, ToString(top[i][2].YEARTXT),
            DecimalText(top[i][1])>>]

\* "|".join(f"{r[0]}-{r[1]}-{r[2]}-{r[3]}-{r[4]}" for r in rows)
RECURSIVE Normalized(_)
Normalized(rows) ==
    IF rows = <<>> THEN ""
    ELSE LET r == Head(rows)
             one == r[1] \o "-" \o r[2] \o "-" \o r[3] \o "-" \o r[4] \o "-" \o r[5]
         IN IF Tail(rows) = <<>> THEN one ELSE one \o "|" \o Normalized(Tail(rows))

\* hashlib.sha256(...).hexdigest(): a collision-free function of the text.
Sha256(text) == <<"sha256", text>>

\* Variant that digests the tuples as a set, whatever their order.
hash_payload_Unordered(rows) == Sha256(Range(rows))

hash_payload(rows) == Sha256(Normalized(rows))

\* The normalized_payload list main builds from the two query results.
NormalizedPayload(zero_recall, ratio_risk) ==
    [i \in DOMAIN zero_recall |-> Append(zero_recall[i], "ZERO_RECALL")]
      \o [i \in DOMAIN ratio_risk |-> Append(ratio_risk[i], "RATIO_RISK")]

\* Variant that looks up another alert's row and so never finds one.
get_last_hash_WrongName(st) == <<Absent>>

\* get_last_hash: the row's last_payload_hash, or None when there is no row.
get_last_hash(st) == IF AlertName \in DOMAIN st THEN st[AlertName] ELSE <<Absent>>

\* Variant whose upsert is never committed.
update_hash_NoCommit(st, new_hash) == st

\* Variant that upserts the row of another alert.
update_hash_OtherAlert(st, new_hash) ==
    [k \in DOMAIN st \cup {"other_alert"} |->
        IF k = "other_alert" THEN new_hash ELSE st[k]]

\* update_hash: upsert of the alert's row.
update_hash(st, new_hash) ==
    [k \in DOMAIN st \cup {AlertName} |-> IF k = AlertName THEN new_hash ELSE st[k]]

\* ------------------------------------------------------ recall ingestion
\* get_top_complaint_vehicles: GROUP BY vehicle over flat_cmpl, HAVING
\* COUNT(*) > 50, ORDER BY complaint_count DESC LIMIT limit. Every row order
\* the sort may return (vehicles of equal count in either order).
ComplaintCount(bl, cmpl, v) ==
    bl[v] + CountRows(cmpl, ComplaintsOf(cmpl, v))

get_top_complaint_vehicles(bl, cmpl, limit) ==
    LET hit == {v \in Vehicles :
                   /\ v.year >= 2015 /\ v.year <= 2024
                   /\ v.make \notin {"UNKNOWN", "FIRESTONE", "GOODYEAR"}
                   /\ v.model # "UNKNOWN"
                   /\ ComplaintCount(bl, cmpl, v) > 50}
    IN {Limit(t, limit) : t \in
          {o \in Perms(hit) : \A i \in 1..(Len(o) - 1) :
              ComplaintCount(bl, cmpl, o[i]) >= ComplaintCount(bl, cmpl, o[i + 1])}}

\* fetch_recalls_for_vehicle: one GET; a non-200 status and any exception
\* (caught) give [] at once; nothing is raised and nothing is slept on.
\* requests is the number of GETs the call made.
fetch_recalls_for_vehicle(src, v, http) ==
    [raised |-> FALSE, requests |-> 1,
     results |-> IF http = "200" THEN src[v] ELSE <<>>]

\* The dedup loop of fetch_new_recalls over the fetched recalls, in fetch order.
RECURSIVE ScanRecalls(_, _, _)
ScanRecalls(fetched, new_recalls, seen) ==
    IF fetched = <<>> THEN [new_recalls |-> new_recalls, seen |-> seen]
    ELSE LET recall == Head(fetched)
             campaign == Get(recall, "NHTSACampaignNumber", Absent)
         IN IF ~Truthy(campaign) THEN ScanRecalls(Tail(fetched), new_recalls, seen)
            ELSE IF campaign \notin seen
                 THEN ScanRecalls(Tail(fetched), Append(new_recalls, recall),
                                  seen \cup {campaign})
                 ELSE ScanRecalls(Tail(fetched), new_recalls, seen)

\* The parameter tuple insert_recalls builds for one recall.
RecallRow(recall) ==
    [CAMPNO |-> Get(recall, "NHTSACampaignNumber", "UNKNOWN"),
     MAKETXT |-> Get(recall, "Make", "UNKNOWN"),
     MODELTXT |-> Get(recall, "Model", "UNKNOWN"),
     YEARTXT |-> Get(recall, "ModelYear", 9999)]

\* INSERT INTO flat_rcl ... ON CONFLICT (CAMPNO) DO NOTHING
InsertRecallOnConflictDoNothing(t, r) ==
    IF \E x \in Rows(t) : x.CAMPNO = r.CAMPNO THEN t ELSE InsertRow(t, r)

\* The loop of insert_recalls inside its one transaction. failAt is the index
\* of the first row whose INSERT raises (0: none). The exception is caught.
\* server = TRUE: the statement was rejected by the server (a value the
\* column does not accept); the transaction is then in the aborted state, the
\* server rejects every later statement and answers the final COMMIT with a
\* rollback. server = FALSE: the driver raised before sending the statement
\* (a parameter it cannot adapt) and the transaction goes on.
RECURSIVE InsertRecallRows(_, _, _, _, _)
InsertRecallRows(t, rows, i, failAt, server) ==
    IF i > Len(rows) THEN [table |-> t, aborted |-> FALSE]
    ELSE IF i = failAt
         THEN IF server THEN [table |-> t, aborted |-> TRUE]
              ELSE InsertRecallRows(t, rows, i + 1, failAt, server)
    ELSE InsertRecallRows(InsertRecallOnConflictDoNothing(t, RecallRow(rows[i])),
                          rows, i + 1, failAt, server)

insert_recalls_commit(t, rows, failAt, server) ==
    LET txn == InsertRecallRows(t, rows, 1, failAt, server)
    IN IF txn.aborted THEN t ELSE txn.table

\* ------------------------------------------------------- flat-file load
\* Rows of the pipe-delimited file; a row with no CMPLID is a NaN that
\* df.dropna(subset=["CMPLID"]) removes.
FileRows ==
    [CMPLID : {"1001"}, v : {V1}, CRASH : {"N"}, INJURED : {0},
     COMPDESC : {"ENGINE"}]
        \cup [v : {V1}, CRASH : {"N"}, INJURED : {0}, COMPDESC : {"ENGINE"}]
FileContents == ResultLists(FileRows) \cup {<<x, x>> : x \in FileRows}

dropna(df) == SelectSeq(df, LAMBDA r : "CMPLID" \in DOMAIN r)

FileRow(r) ==
    [cmplid |-> r.CMPLID, maketxt |-> r.v.make, modeltxt |-> r.v.model,
     yeartxt |-> r.v.year, cdescr |-> Absent, compdesc |-> r.COMPDESC,
     crash |-> r.CRASH, injured |-> r.INJURED]

\* INSERT INTO flat_cmpl ... ON CONFLICT (CMPLID) DO NOTHING, row by row.
RECURSIVE InsertFileRows(_, _)
InsertFileRows(t, df) ==
    IF df = <<>> THEN t
    ELSE InsertFileRows(
             IF \E x \in Rows(t) : x.cmplid = Head(df).CMPLID THEN t
             ELSE InsertRow(t, FileRow(Head(df))),
             Tail(df))

\* ------------------------------------------------------ environment inputs
HttpOutcomes == {"200", "non200", "exception"}
Failed(http) == {v \in DOMAIN http : http[v] # "200"}

\* What the environment may do to a run: the payloads the API may hold, the
\* outcome of each request, and where the store or SMTP may fail.
FullEnv ==
    [cmplSrc |-> ComplaintSources, http |-> HttpOutcomes,
     cmplDb |-> {"ok", "connect_failed", "insert_failed", "set_failed"},
     rclSrc |-> RecallSources, rclSets |-> 0..3, connected |-> BOOLEAN,
     rowFails |-> BOOLEAN, refreshFail |-> 0..13, committed |-> BOOLEAN,
     files |-> FileContents,
     creds |-> BOOLEAN, smtp |-> {"ok", "fail", "fail_after_send"},
     alertDb |-> {"ok", "read_failed", "update_failed"}]

\* The ingestion steps under every failure, the alert step without failures.
IngestEnv ==
    [FullEnv EXCEPT !.refreshFail = {0, 1},
                    !.creds = {TRUE}, !.smtp = {"ok"}, !.alertDb = {"ok"}]

\* The alert step under every failure, over ingestion runs that cannot fail
\* and that find at most one new complaint and one new recall for V1.
AlertEnv ==
    [FullEnv EXCEPT
       !.cmplSrc = {NoResults,
                    [NoResults EXCEPT ![V1] = <<[odiNumber |-> 1001, summary |-> "s"]>>]},
       !.http = {"200"}, !.cmplDb = {"ok"},
       !.rclSrc = {NoResults,
                   [NoResults EXCEPT ![V1] =
                      <<[NHTSACampaignNumber |-> "21V001", Make |-> V1.make,
                         Model |-> V1.model, ModelYear |-> V1.year]>>]},
       !.rclSets = {3}, !.connected = {TRUE}, !.rowFails = {FALSE},
       !.refreshFail = {0}, !.committed = {TRUE},
       !.files = {<<[CMPLID |-> "1001", v |-> V1, CRASH |-> "N",
                      INJURED |-> 0, COMPDESC |-> "ENGINE"]>>}]

\* Recall answers over two campaign numbers: none, one, both for one
\* vehicle, one repeated in a list, one reported for both vehicles, and a
\* recall without a campaign number.
CountRecall(v, campaign) ==
    [NHTSACampaignNumber |-> campaign, Make |-> v.make, Model |-> v.model,
     ModelYear |-> v.year]
CountSources ==
    { NoResults,
      [NoResults EXCEPT ![V1] = <<CountRecall(V1, "21V001")>>],
      [NoResults EXCEPT ![V1] = <<CountRecall(V1, "21V001"),
                                  CountRecall(V1, "21V002")>>],
      [NoResults EXCEPT ![V1] = <<CountRecall(V1, "21V002"),
                                  CountRecall(V1, "21V002")>>],
      [NoResults EXCEPT ![V1] = <<CountRecall(V1, "21V001")>>,
                        ![V2] = <<CountRecall(V2, "21V001")>>],
      [NoResults EXCEPT ![V1] = <<[Make |-> V1.make, Model |-> V1.model,
                                   ModelYear |-> V1.year]>>] }

\* Pipeline runs whose fetch_new_recalls always completes.
CountEnv ==
    [AlertEnv EXCEPT !.cmplSrc = {NoResults}, !.rclSrc = CountSources,
                     !.creds = {TRUE}, !.smtp = {"ok"}, !.alertDb = {"ok"}]

\* Every store and delivery failure at every stage, over ingestion runs that
\* find at most one new complaint and one new recall for V1.
StagesEnv ==
    [AlertEnv EXCEPT
       !.cmplDb = FullEnv.cmplDb, !.rclSets = FullEnv.rclSets,
       !.connected = BOOLEAN, !.rowFails = BOOLEAN,
       !.refreshFail = {0, 1, 2, 7, 12, 13}, !.creds = {TRUE}]

\* ----------------------------------------------------------------- Init
NoRows == <<>>

\* History of the pipeline run in progress, kept until its ingestion steps
\* are over: the identifiers the fetch loops received (cGot, rGot), whether a
\* vehicle's fetch failed (cFailed, rFailed), the seen-set and tables the run
\* started from, whether the complaint loop queued a row (cNew), whether
\* every store operation succeeded so far (clean), and the same for the run
\* immediately before (prevOk, prevC, prevR).
NoRun ==
    [prevOk |-> FALSE, prevC |-> {}, prevR |-> {}, cGot |-> {}, rGot |-> {},
     cNew |-> FALSE, cFailed |-> FALSE, rFailed |-> FALSE, rSeen0 |-> {},
     cmpl0 |-> EmptyBag, rcl0 |-> EmptyBag, clean |-> FALSE,
     ingested |-> FALSE]

\* History of the alert runs: n runs so far (counted to 2), the latest run's
\* result and the alert_state it started from, the previous run's result, and
\* whether vehicle_risk_scores changed between the two (dirty), and whether
\* the latest run was step 5 of run_etl.main (inPipeline).
NoAlert ==
    [n |-> 0, outcome |-> "none", attempted |-> FALSE, sent |-> FALSE,
     before |-> NoRows, creds |-> FALSE, smtp |-> "ok", db |-> "ok",
     prevOutcome |-> "none", prevSent |-> FALSE,
     same |-> FALSE, dirty |-> FALSE, inPipeline |-> FALSE,
     digest |-> <<"none", "">>, prevDigest |-> <<"none", "">>,
     prev2Outcome |-> "none", prev2Digest |-> <<"none", "">>]

\* Two operating-system processes that run load_complaints at the same time.
Workers == {"A", "B"}

\* A process that has not called load_complaints yet. seen_odis and
\* rows_to_insert are its locals, next the index of the executemany statement
\* it is at, pending the rows its open transaction has written.
\* loaded is the seen-set sm.get returned to it.
WorkerIdle ==
    [pc |-> "start", loaded |-> {}, seen_odis |-> {}, rows_to_insert |-> <<>>,
     next |-> 1, pending |-> EmptyBag, outcome |-> "none"]

\* A process that has not called critical_vehicle_alert.main yet.
\* current_hash and last_hash are its locals; overlapped: another process was
\* between its read and its return when this one read.
AlertRunIdle ==
    [pc |-> "start", current_hash |-> <<Absent>>, last_hash |-> <<Absent>>,
     overlapped |-> FALSE, attempted |-> FALSE, creds |-> FALSE,
     smtp |-> "ok", sent |-> FALSE, outcome |-> "none"]
NoAlertRuns == [w \in Workers |-> AlertRunIdle]

\* No computation probed yet.
NoProbe == [op |-> "none", input |-> <<>>]

\* The deployed database: the historic complaints loaded, nothing ingested
\* incrementally yet, the derived table refreshed once, no alert sent.
InitWith(backlogs) ==
    /\ pc = "idle"
    /\ runs = 0
    /\ backlog \in backlogs
    /\ flat_cmpl = EmptyBag
    /\ flat_rcl = EmptyBag
    /\ etl_state = NoRows
    /\ recalls = <<>>
    /\ vehicle_risk_scores \in
           RiskScoreTables(vehicle_risk_summary(backlog, EmptyBag, EmptyBag))
    /\ alert_state = NoRows
    /\ last = [op |-> "init", outcome |-> "ok"]
    /\ run = NoRun
    /\ delivered = {}
    /\ alertLog = NoAlert
    /\ probe = NoProbe
    /\ derived \in DerivedTables(backlog, EmptyBag, EmptyBag)
    /\ workers = [w \in Workers |-> WorkerIdle]
    /\ alerts = NoAlertRuns

Init == InitWith(AlertBacklogs)

\* -------------------------------------------------------- load_complaints
\* Variant that starts every run from an empty seen_odis.
SeenOdis_Forgets(st) == {}

\* seen_odis as load_complaints reads it: set(json.loads(raw)) if raw else set()
SeenOdis(st) ==
    IF sm_has(st, "seen_odi_numbers")
    THEN JsonLoadsSet(sm_get(st, "seen_odi_numbers")) ELSE {}

\* The (vehicle, complaint) pairs the fetch loop walks, in order.
FetchedComplaints(src, vehicles, http) ==
    Flatten([i \in DOMAIN vehicles |->
        LET got == fetch_complaints(src, vehicles[i], http[vehicles[i]]).results
        IN [j \in DOMAIN got |-> <<vehicles[i], got[j]>>]])

\* An exception that escapes the fetch loop ends load_complaints there.
ComplaintFetchRaised(src, vehicles, http) ==
    \E i \in DOMAIN vehicles :
        fetch_complaints(src, vehicles[i], http[vehicles[i]]).raised

\* Variant that writes the seen-set back before the bulk insert.
LoadComplaintsEffect_SeenFirst(db, raised, scan, cmpl, st) ==
    IF db = "connect_failed"
    THEN [flat_cmpl |-> cmpl, etl_state |-> st, outcome |-> "connect_raised"]
    ELSE IF raised
    THEN [flat_cmpl |-> cmpl, etl_state |-> st, outcome |-> "fetch_raised"]
    ELSE IF scan.rows = <<>>
    THEN [flat_cmpl |-> cmpl, etl_state |-> st, outcome |-> "no_new"]
    ELSE IF db = "insert_failed"
    THEN [flat_cmpl |-> cmpl,
          etl_state |-> sm_set(st, "seen_odi_numbers", JsonDumpsList(scan.seen)),
          outcome |-> "insert_raised"]
    ELSE [flat_cmpl |-> ExecuteMany(cmpl, scan.rows),
          etl_state |-> sm_set(st, "seen_odi_numbers", JsonDumpsList(scan.seen)),
          outcome |-> IF db = "set_failed" THEN "set_raised" ELSE "ok"]

\* What load_complaints leaves behind, by where the database let it get to.
\*   connect_failed  StateManager(), connect or the vehicle query raises
\*   insert_failed   executemany or commit raises: the transaction rolls back
\*   set_failed      rows committed, sm.set raises
\* raised: an exception escaped the fetch loop (the with-block rolls back).
LoadComplaintsEffect(db, raised, scan, cmpl, st) ==
    IF db = "connect_failed"
    THEN [flat_cmpl |-> cmpl, etl_state |-> st, outcome |-> "connect_raised"]
    ELSE IF raised
    THEN [flat_cmpl |-> cmpl, etl_state |-> st, outcome |-> "fetch_raised"]
    ELSE IF scan.rows = <<>>
    THEN [flat_cmpl |-> cmpl, etl_state |-> st, outcome |-> "no_new"]
    ELSE IF db = "insert_failed"
    THEN [flat_cmpl |-> cmpl, etl_state |-> st, outcome |-> "insert_raised"]
    ELSE IF db = "set_failed"
    THEN [flat_cmpl |-> ExecuteMany(cmpl, scan.rows), etl_state |-> st,
          outcome |-> "set_raised"]
    ELSE [flat_cmpl |-> ExecuteMany(cmpl, scan.rows),
          etl_state |-> sm_set(st, "seen_odi_numbers", JsonDumpsList(scan.seen)),
          outcome |-> "ok"]

Returned(outcome) ==
    outcome \notin {"connect_raised", "fetch_raised", "insert_raised", "set_raised",
                    "raised", "count_raised",
                    "read_raised", "send_raised", "update_raised"}

\* Variant of run_etl.main that calls run_alerts right after insert_recalls.
AfterStage_SkipRefresh(op, returned) ==
    IF ~returned THEN "idle"
    ELSE CASE op = "load_complaints" -> "step2"
           [] op = "fetch_new_recalls" -> "step3"
           [] op = "insert_recalls" -> "step5"
           [] op = "refresh_analytical_tables" -> "step5"
           [] OTHER -> "idle"

\* Variant of run_etl.main that catches a stage's exception and goes on.
AfterStage_ContinueOnError(op, returned) ==
    CASE op = "load_complaints" -> "step2"
      [] op = "fetch_new_recalls" -> "step3"
      [] op = "insert_recalls" -> "step4"
      [] op = "refresh_analytical_tables" -> "step5"
      [] OTHER -> "idle"

\* run_etl.main: the statement that follows the call of `op`. An exception
\* leaves main, for nothing in it catches one; run_alerts is the last call.
AfterStage(op, returned) ==
    IF ~returned THEN "idle"
    ELSE CASE op = "load_complaints" -> "step2"
           [] op = "fetch_new_recalls" -> "step3"
           [] op = "insert_recalls" -> "step4"
           [] op = "refresh_analytical_tables" -> "step5"
           [] OTHER -> "idle"

\* Step 1 of run_etl.main.
load_complaints(env) ==
    /\ pc = "idle"
    /\ runs < MaxRuns
    /\ \E src \in env.cmplSrc, db \in env.cmplDb :
        \E vehicles \in ComplaintTargets(vehicle_risk_scores) :
           \E http \in [Range(vehicles) -> env.http] :
            LET fetched == FetchedComplaints(src, vehicles, http)
                scan == ScanComplaints(fetched, <<>>, SeenOdis(etl_state))
                eff == LoadComplaintsEffect(
                           db, ComplaintFetchRaised(src, vehicles, http), scan,
                           flat_cmpl, etl_state)
            IN /\ db \in {"insert_failed", "set_failed"} => scan.rows # <<>>
               /\ db = "connect_failed" =>
                      (src = NoResults /\ \A v \in DOMAIN http : http[v] = "200")
               /\ flat_cmpl' = eff.flat_cmpl
               /\ etl_state' = eff.etl_state
               /\ pc' = AfterStage("load_complaints", Returned(eff.outcome))
               /\ last' = [op |-> "load_complaints", outcome |-> eff.outcome]
               /\ run' = IF Returned(eff.outcome)
                         THEN [prevOk |-> run.ingested, prevC |-> run.cGot,
                               prevR |-> run.rGot,
                               cGot |-> {StrGet(fetched[i][2], "odiNumber") :
                                            i \in DOMAIN fetched},
                               rGot |-> {}, cNew |-> scan.rows # <<>>,
                               cFailed |-> Failed(http) # {}, rFailed |-> FALSE,
                               rSeen0 |-> {}, cmpl0 |-> flat_cmpl,
                               rcl0 |-> flat_rcl, clean |-> TRUE,
                               ingested |-> FALSE]
                         ELSE NoRun
    /\ runs' = runs + 1
    /\ UNCHANGED <<backlog, flat_rcl, recalls, vehicle_risk_scores,
                   alert_state, delivered, alertLog, probe, derived, workers,
                   alerts>>

\* ------------------------------------------------------ fetch_new_recalls
\* seen as fetch_new_recalls reads it.
SeenCampaigns(st) ==
    IF sm_has(st, "seen_campaign_numbers")
    THEN JsonLoadsSet(sm_get(st, "seen_campaign_numbers")) ELSE {}

FetchedRecalls(src, vehicles, http) ==
    Flatten([i \in DOMAIN vehicles |->
        fetch_recalls_for_vehicle(src, vehicles[i], http[vehicles[i]]).results])

RecallFetchRaised(src, vehicles, http) ==
    \E i \in DOMAIN vehicles :
        fetch_recalls_for_vehicle(src, vehicles[i], http[vehicles[i]]).raised

\* Variant that adds the size of the whole seen-set to the counter.
UpdateRecallState_AddsSeen(st, scan, today, sets) ==
    IF scan.new_recalls = <<>> THEN st
    ELSE LET s1 == sm_set(st, "seen_campaign_numbers", JsonDumpsList(scan.seen))
             s2 == sm_set(s1, "last_recall_fetch", today)
             total == IF sm_has(s2, "total_recalls_loaded")
                      THEN ParseInt(sm_get(s2, "total_recalls_loaded")) ELSE 0
             s3 == StateManager_set(s2, "total_recalls_loaded",
                                    [int |-> total + Cardinality(scan.seen)])
         IN IF sets = 0 THEN st ELSE IF sets = 1 THEN s1
            ELSE IF sets = 2 THEN s2 ELSE s3

\* The "Update state" block: three sm.set calls, each committed on its own.
\* sets is how many of them completed before one raised (3: all).
UpdateRecallState(st, scan, today, sets) ==
    IF scan.new_recalls = <<>> THEN st
    ELSE LET s1 == sm_set(st, "seen_campaign_numbers", JsonDumpsList(scan.seen))
             s2 == sm_set(s1, "last_recall_fetch", today)
             total == IF sm_has(s2, "total_recalls_loaded")
                      THEN ParseInt(sm_get(s2, "total_recalls_loaded")) ELSE 0
             s3 == StateManager_set(s2, "total_recalls_loaded",
                                    [int |-> total + Len(scan.new_recalls)])
         IN IF sets = 0 THEN st ELSE IF sets = 1 THEN s1
            ELSE IF sets = 2 THEN s2 ELSE s3

\* Step 2 of run_etl.main. connected = FALSE: StateManager() or the vehicle
\* query raises before anything is fetched.
fetch_new_recalls(env) ==
    /\ pc = "step2"
    /\ \E src \in env.rclSrc, sets \in env.rclSets, connected \in env.connected,
          vehicles \in get_top_complaint_vehicles(backlog, flat_cmpl,
                                                  RecallVehicleLimit) :
        \E http \in [Range(vehicles) -> env.http] :
            LET fetched == FetchedRecalls(src, vehicles, http)
                seen == SeenCampaigns(etl_state)
                scan == ScanRecalls(fetched, <<>>, seen)
                raised == connected /\ RecallFetchRaised(src, vehicles, http)
                ok == connected /\ ~raised /\ sets = 3
            IN /\ ~connected =>
                      (sets = 0 /\ src = NoResults
                         /\ \A v \in DOMAIN http : http[v] = "200")
               /\ (connected /\ scan.new_recalls = <<>>) => sets = 3
               /\ etl_state' = IF connected /\ ~raised
                               THEN UpdateRecallState(etl_state, scan,
                                                      ToString(runs), sets)
                               ELSE etl_state
               /\ recalls' = IF ok THEN scan.new_recalls ELSE <<>>
               /\ pc' = AfterStage("fetch_new_recalls", ok)
               /\ last' = [op |-> "fetch_new_recalls",
                           outcome |-> IF ok THEN "ok"
                                       ELSE IF raised THEN "fetch_raised"
                                       ELSE IF connected THEN "set_raised"
                                       ELSE "connect_raised"]
               /\ run' = IF ok
                         THEN [run EXCEPT
                                 !.rGot = {fetched[i].NHTSACampaignNumber :
                                             i \in {j \in DOMAIN fetched :
                                               "NHTSACampaignNumber" \in
                                                   DOMAIN fetched[j]}},
                                 !.rFailed = Failed(http) # {},
                                 !.rSeen0 = seen]
                         ELSE NoRun
    /\ UNCHANGED <<runs, backlog, flat_cmpl, flat_rcl, vehicle_risk_scores,
                   alert_state, delivered, alertLog, probe, derived, workers,
                   alerts>>

\* --------------------------------------------------------- insert_recalls
\* What insert_recalls leaves in flat_rcl. connected = FALSE: connect or the
\* final commit raises (the store is unreachable) and nothing is written.
InsertRecallsEffect(rcl, rows, connected, failAt, server) ==
    IF rows = <<>> THEN [flat_rcl |-> rcl, outcome |-> "nothing"]
    ELSE IF ~connected THEN [flat_rcl |-> rcl, outcome |-> "connect_raised"]
    ELSE [flat_rcl |-> insert_recalls_commit(rcl, rows, failAt, server),
          outcome |-> IF failAt = 0 THEN "ok" ELSE "row_failed"]

\* Step 3 of run_etl.main.
insert_recalls(env) ==
    /\ pc = "step3"
    /\ \E connected \in env.connected, failAt \in 0..Len(recalls),
          server \in BOOLEAN :
        LET eff == InsertRecallsEffect(flat_rcl, recalls, connected, failAt,
                                       server)
        IN /\ recalls = <<>> => connected
           /\ ~connected => failAt = 0
           /\ failAt = 0 => ~server
           /\ failAt > 0 => TRUE \in env.rowFails
           /\ flat_rcl' = eff.flat_rcl
           /\ pc' = AfterStage("insert_recalls", Returned(eff.outcome))
           /\ last' = [op |-> "insert_recalls", outcome |-> eff.outcome]
           /\ run' = IF Returned(eff.outcome)
                     THEN [run EXCEPT
                             !.clean = eff.outcome \in {"ok", "nothing"},
                             !.ingested = eff.outcome \in {"ok", "nothing"}]
                     ELSE NoRun
    /\ recalls' = <<>>
    /\ UNCHANGED <<runs, backlog, flat_cmpl, etl_state, vehicle_risk_scores,
                   alert_state, delivered, alertLog, probe, derived, workers,
                   alerts>>

\* ----------------------------------------------- refresh_analytical_tables
\* Step 4 of run_etl.main. failAt: the statement that raises (1..12), 13 for
\* one of the COUNT(*) queries after the commit, 0 for none.
RefreshOutcome(failAt) ==
    IF failAt = 0 THEN "ok" ELSE IF failAt = 13 THEN "count_raised" ELSE "raised"

refresh_analytical_tables(env) ==
    /\ pc = "step4"
    /\ \E failAt \in env.refreshFail,
          rebuilt \in RiskScoreTables(vehicle_risk_summary(backlog, flat_cmpl, flat_rcl)),
          others \in DerivedTables(backlog, flat_cmpl, flat_rcl) :
        LET visible == refresh_commit(
                           Catalog(vehicle_risk_scores, derived),
                           Catalog(rebuilt, others),
                           failAt)
        IN /\ vehicle_risk_scores' = visible.tables["vehicle_risk_scores"]
           /\ derived' = [tables |-> [n \in OtherDerived |-> visible.tables[n]],
                          dropped |-> visible.dropped]
           /\ pc' = AfterStage("refresh_analytical_tables", failAt = 0)
           /\ last' = [op |-> "refresh_analytical_tables",
                       outcome |-> RefreshOutcome(failAt)]
    /\ alertLog' = [alertLog EXCEPT
                      !.dirty = @ \/ vehicle_risk_scores' # vehicle_risk_scores]
    /\ run' = [NoRun EXCEPT !.ingested = run.ingested, !.cGot = run.cGot,
                            !.rGot = run.rGot]
    /\ UNCHANGED <<runs, backlog, flat_cmpl, flat_rcl, etl_state, recalls,
                   alert_state, delivered, probe, workers, alerts>>

\* ------------------------------------------------- critical_vehicle_alert
\* Variant that treats a missing credential as an error.
send_email_RaisesWithoutCreds(creds, smtp) ==
    IF ~creds THEN "raised"
    ELSE IF smtp = "ok" THEN "sent"
    ELSE IF smtp = "fail_after_send" THEN "sent_raised" ELSE "raised"

\* send_email: "skipped" when a credential is missing (returns None without
\* sending); "raised" when connect, starttls, login or send_message raises
\* (smtp = "fail"); "sent_raised" when the server accepted the message and
\* the call raises afterwards, in the QUIT at the end of the with block or in
\* the final print (smtp = "fail_after_send"); else "sent".
send_email(creds, smtp) ==
    IF ~creds THEN "skipped"
    ELSE IF smtp = "ok" THEN "sent"
    ELSE IF smtp = "fail_after_send" THEN "sent_raised" ELSE "raised"

\* Variant of main that stores the digest first and sends afterwards.
AlertMain_UpdateFirst(risk, st, creds, smtp, db) ==
    LET zero_recall == get_zero_recall_vehicles(risk)
        ratio_risk == get_ratio_critical_vehicles(risk)
        current_hash == hash_payload(NormalizedPayload(zero_recall, ratio_risk))
        last_hash == get_last_hash(st)
        mail == send_email(creds, smtp)
        quiet(o) == [alert_state |-> st, attempted |-> FALSE, sent |-> FALSE,
                     outcome |-> o, digest |-> current_hash]
    IN IF db = "read_failed" THEN quiet("read_raised")
       ELSE IF zero_recall = <<>> /\ ratio_risk = <<>> THEN quiet("no_risk")
       ELSE IF current_hash = last_hash THEN quiet("no_change")
       ELSE IF db = "update_failed"
       THEN [alert_state |-> st, attempted |-> FALSE, sent |-> FALSE,
             outcome |-> "update_raised", digest |-> current_hash]
       ELSE [alert_state |-> update_hash(st, current_hash), attempted |-> TRUE,
             sent |-> (mail \in {"sent", "sent_raised"}),
             outcome |-> IF mail = "sent" THEN "notified"
                         ELSE IF mail \in {"raised", "sent_raised"}
                         THEN "send_raised"
                         ELSE "no_credentials",
             digest |-> current_hash]

\* Variant of main without the early return: an empty payload is hashed,
\* compared and stored like any other, only the mail is left out.
AlertMain_HashesEmptyPayload(risk, st, creds, smtp, db) ==
    LET zero_recall == get_zero_recall_vehicles(risk)
        ratio_risk == get_ratio_critical_vehicles(risk)
        current_hash == hash_payload(NormalizedPayload(zero_recall, ratio_risk))
        last_hash == get_last_hash(st)
        mail == send_email(creds, smtp)
        empty == zero_recall = <<>> /\ ratio_risk = <<>>
        quiet(o) == [alert_state |-> st, attempted |-> FALSE, sent |-> FALSE,
                     outcome |-> o, digest |-> current_hash]
    IN IF db = "read_failed" THEN quiet("read_raised")
       ELSE IF current_hash = last_hash THEN quiet("no_change")
       ELSE IF ~empty /\ mail \in {"raised", "sent_raised"}
       THEN [alert_state |-> st, attempted |-> TRUE,
             sent |-> (mail = "sent_raised"),
             outcome |-> "send_raised", digest |-> current_hash]
       ELSE IF db = "update_failed"
       THEN [alert_state |-> st, attempted |-> ~empty,
             sent |-> (~empty /\ mail = "sent"),
             outcome |-> "update_raised", digest |-> current_hash]
       ELSE [alert_state |-> update_hash(st, current_hash),
             attempted |-> ~empty, sent |-> (~empty /\ mail = "sent"),
             outcome |-> IF empty THEN "no_risk"
                         ELSE IF mail = "sent" THEN "notified"
                         ELSE "no_credentials",
             digest |-> current_hash]

\* critical_vehicle_alert.main over the risk table `risk` and alert_state st.
\* db: "ok", "read_failed" (a query or get_last_hash raises) or "update_failed"
\* (update_hash raises).
AlertMain(risk, st, creds, smtp, db) ==
    LET zero_recall == get_zero_recall_vehicles(risk)
        ratio_risk == get_ratio_critical_vehicles(risk)
        current_hash == hash_payload(NormalizedPayload(zero_recall, ratio_risk))
        last_hash == get_last_hash(st)
        mail == send_email(creds, smtp)
        quiet(o) == [alert_state |-> st, attempted |-> FALSE, sent |-> FALSE,
                     outcome |-> o, digest |-> current_hash]
    IN IF db = "read_failed" THEN quiet("read_raised")
       ELSE IF zero_recall = <<>> /\ ratio_risk = <<>> THEN quiet("no_risk")
       ELSE IF current_hash = last_hash THEN quiet("no_change")
       ELSE IF mail \in {"raised", "sent_raised"}
       THEN [alert_state |-> st, attempted |-> TRUE,
             sent |-> (mail = "sent_raised"),
             outcome |-> "send_raised", digest |-> current_hash]
       ELSE IF db = "update_failed"
       THEN [alert_state |-> st, attempted |-> TRUE, sent |-> (mail = "sent"),
             outcome |-> "update_raised", digest |-> current_hash]
       ELSE [alert_state |-> update_hash(st, current_hash), attempted |-> TRUE,
             sent |-> (mail = "sent"),
             outcome |-> IF mail = "sent" THEN "notified" ELSE "no_credentials",
             digest |-> current_hash]

\* critical_vehicle_alert.main as step 5 of run_etl.main and as the module's
\* own entry point (pc = "idle"), which runs while fewer than `limit` runs
\* were started.
AlertRun(env, limit) ==
    /\ pc \in {"step5", "idle"}
    /\ pc = "idle" => runs < limit
    /\ \E creds \in env.creds, smtp \in env.smtp, db \in env.alertDb :
        LET res == AlertMain(vehicle_risk_scores, alert_state, creds, smtp, db)
        IN /\ alert_state' = res.alert_state
           /\ delivered' = IF res.sent THEN delivered \cup {res.digest}
                           ELSE delivered
           /\ alertLog' = [n |-> IF alertLog.n < 2 THEN alertLog.n + 1 ELSE 2,
                           outcome |-> res.outcome,
                           attempted |-> res.attempted,
                           sent |-> res.sent,
                           before |-> alert_state,
                           creds |-> creds, smtp |-> smtp, db |-> db,
                           prevOutcome |-> alertLog.outcome,
                           prevSent |-> alertLog.sent,
                           same |-> (alertLog.n > 0 /\ ~alertLog.dirty),
                           dirty |-> FALSE,
                           inPipeline |-> (pc = "step5"),
                           digest |-> res.digest,
                           prevDigest |-> alertLog.digest,
                           prev2Outcome |-> alertLog.prevOutcome,
                           prev2Digest |-> alertLog.prevDigest]
           /\ last' = [op |-> "run_alerts", outcome |-> res.outcome]
    /\ runs' = IF pc = "idle" THEN runs + 1 ELSE runs
    /\ pc' = AfterStage("run_alerts", TRUE)
    /\ UNCHANGED <<backlog, flat_cmpl, flat_rcl, etl_state, recalls,
                   vehicle_risk_scores, run, probe, derived, workers, alerts>>

run_alerts(env) == AlertRun(env, MaxRuns)

\* --------------------------------------- fetch_complaints_ftp.main (load)
\* load_complaints_to_db: every row of the file in one transaction.
load_complaints_to_db(env) ==
    /\ pc = "idle"
    /\ runs < MaxRuns
    /\ \E file \in env.files, committed \in env.committed :
        /\ flat_cmpl' = IF committed THEN InsertFileRows(flat_cmpl, dropna(file))
                        ELSE flat_cmpl
        /\ last' = [op |-> "load_complaints_to_db",
                    outcome |-> IF committed THEN "ok" ELSE "raised"]
    /\ runs' = runs + 1
    /\ run' = NoRun
    /\ UNCHANGED <<pc, backlog, flat_rcl, etl_state, recalls,
                   vehicle_risk_scores, alert_state, delivered, alertLog,
                   probe, derived, workers, alerts>>

\* ------------------------------------- the risk-score rebuild on its own
\* (total_complaints, total_recalls) of a vehicle_risk_summary row: the
\* documented scenarios and the values on either side of each threshold.
SummaryPairs ==
    { <<600, 0>>, <<250, 0>>, <<1000, 50>>, <<300, 100>>, <<2, 0>>,
      <<501, 0>>, <<500, 0>>, <<201, 0>>, <<200, 0>>, <<51, 0>>, <<50, 0>>,
      <<501, 50>>, <<500, 50>> }

SummaryRow(v, pair) ==
    [MAKETXT |-> v.make, MODELTXT |-> v.model, YEARTXT |-> v.year,
     total_complaints |-> pair[1], total_recalls |-> pair[2]]

\* The contents vehicle_risk_summary may have: a row or none per vehicle.
SummaryInputs ==
    { {SummaryRow(v, f[v]) : v \in S} :
        S \in SUBSET Vehicles, f \in [Vehicles -> SummaryPairs] }

\* DROP TABLE vehicle_risk_scores and CREATE TABLE ... AS SELECT over a
\* vehicle_risk_summary drawn from `inputs`.
RebuildRiskScores(inputs) ==
    /\ pc = "idle"
    /\ \E summary \in inputs :
        /\ vehicle_risk_scores' \in RiskScoreTables(summary)
        /\ probe' = [op |-> "rebuild_vehicle_risk_scores", input |-> summary]
    /\ alertLog' = [alertLog EXCEPT
                      !.dirty = @ \/ vehicle_risk_scores' # vehicle_risk_scores]
    /\ last' = [op |-> "rebuild_vehicle_risk_scores", outcome |-> "ok"]
    /\ UNCHANGED <<pc, runs, backlog, flat_cmpl, flat_rcl, etl_state, recalls,
                   alert_state, run, delivered, derived, workers, alerts>>

rebuild_vehicle_risk_scores == RebuildRiskScores(SummaryInputs)

\* The summaries of a fleet whose vehicles enter and leave the qualifying
\* set: each vehicle absent, below every threshold (2 complaints) or HIGH
\* with no recall (250 complaints).
CycleSummaries ==
    {s \in SummaryInputs :
        \A r \in s : <<r.total_complaints, r.total_recalls>>
                        \in {<<250, 0>>, <<2, 0>>}}

rebuild_between_alerts == RebuildRiskScores(CycleSummaries)

\* The alert entry point, run once more than the other entry points.
CycleEnv == [AlertEnv EXCEPT !.smtp = {"ok"}, !.alertDb = {"ok"}]

alert_between_rebuilds == AlertRun(CycleEnv, MaxRuns + 1)


\* ------------------------------------- load_complaints, two at a time
\* Each process has its own connections. Its statements are steps of their
\* own; READ COMMITTED shows a statement the rows committed when it starts and
\* the rows of its own transaction. flat_cmpl has a unique index on cmplid
\* (the flat-file loader names it in ON CONFLICT (CMPLID)).
CmplidsOf(t) == {x.cmplid : x \in Rows(t)}

\* What the complaint API may return to the concurrent processes: per vehicle
\* nothing or one complaint, with one of two ODI numbers or none.
ConcurrentOdiNumbers == {1001, 1002}
ConcurrentSources ==
    [Vehicles -> ResultLists([odiNumber : ConcurrentOdiNumbers, summary : {"s"}]
                                \cup [summary : {"s"}])]

\* Variant that merges the stored seen-set into the one it writes.
WriteSeenOdis_Merged(st, seen_odis) ==
    sm_set(st, "seen_odi_numbers", JsonDumpsList(SeenOdis(st) \cup seen_odis))

\* sm.set("seen_odi_numbers", json.dumps(list(seen_odis)))
WriteSeenOdis(st, seen_odis) ==
    sm_set(st, "seen_odi_numbers", JsonDumpsList(seen_odis))

\* The cmplids written by open transactions other than w's.
HeldByOthers(w) ==
    UNION {CmplidsOf(workers[o].pending) : o \in Workers \ {w}}

\* The statement of executemany process w is at.
CurrentRow(w) == workers[w].rows_to_insert[workers[w].next]

\* The exception leaves executemany and the with-block: the transaction is
\* rolled back, sm.set is not reached.
InsertRaised(wk) ==
    [wk EXCEPT !.pc = "done", !.pending = EmptyBag, !.outcome = "insert_raised"]

\* sm.get, the vehicle query, the fetch loop and the dedup loop of process w.
begin_load_complaints(w) ==
    /\ workers[w].pc = "start"
    /\ \E src \in ConcurrentSources :
        \E vehicles \in ComplaintTargets(vehicle_risk_scores) :
           \E http \in [Range(vehicles) -> HttpOutcomes] :
            LET fetched == FetchedComplaints(src, vehicles, http)
                scan == ScanComplaints(fetched, <<>>, SeenOdis(etl_state))
            IN workers' = [workers EXCEPT ![w] =
                   IF scan.rows = <<>>
                   THEN [@ EXCEPT !.pc = "done", !.outcome = "no_new",
                                  !.loaded = SeenOdis(etl_state),
                                  !.seen_odis = scan.seen]
                   ELSE [@ EXCEPT !.pc = "inserting",
                                  !.loaded = SeenOdis(etl_state),
                                  !.seen_odis = scan.seen,
                                  !.rows_to_insert = scan.rows]]
    /\ UNCHANGED <<pc, runs, backlog, flat_cmpl, flat_rcl, etl_state, recalls,
                   vehicle_risk_scores, alert_state, last, run, delivered,
                   alertLog, probe, derived, alerts>>

\* One INSERT ... WHERE NOT EXISTS of executemany. The subquery sees the
\* committed rows and the transaction's own; when it finds none the row goes
\* to the unique index, where an entry of another open transaction makes the
\* statement wait for that transaction to end.
insert_statement(w) ==
    /\ workers[w].pc = "inserting"
    /\ workers[w].next <= Len(workers[w].rows_to_insert)
    /\ LET r == CurrentRow(w)
           visible == CmplidsOf(flat_cmpl) \cup CmplidsOf(workers[w].pending)
       IN workers' = [workers EXCEPT ![w] =
              IF r.cmplid \in visible THEN [@ EXCEPT !.next = @ + 1]
              ELSE IF r.cmplid \in HeldByOthers(w) THEN [@ EXCEPT !.pc = "waiting"]
              ELSE [@ EXCEPT !.pending = InsertRow(@, r), !.next = @ + 1]]
    /\ UNCHANGED <<pc, runs, backlog, flat_cmpl, flat_rcl, etl_state, recalls,
                   vehicle_risk_scores, alert_state, last, run, delivered,
                   alertLog, probe, derived, alerts>>

\* The transaction waited for has ended. If it committed the row, the index
\* rejects the waiting INSERT (unique_violation) and executemany raises; if it
\* rolled back, the INSERT goes through.
insert_resumes(w) ==
    /\ workers[w].pc = "waiting"
    /\ CurrentRow(w).cmplid \notin HeldByOthers(w)
    /\ workers' = [workers EXCEPT ![w] =
           IF CurrentRow(w).cmplid \in CmplidsOf(flat_cmpl) THEN InsertRaised(@)
           ELSE [@ EXCEPT !.pc = "inserting",
                          !.pending = InsertRow(@, CurrentRow(w)),
                          !.next = @ + 1]]
    /\ UNCHANGED <<pc, runs, backlog, flat_cmpl, flat_rcl, etl_state, recalls,
                   vehicle_risk_scores, alert_state, last, run, delivered,
                   alertLog, probe, derived, alerts>>

\* Two transactions wait for each other's index entry: the server ends one
\* of them with deadlock_detected, and its executemany raises.
deadlock_detected(w) ==
    /\ workers[w].pc = "waiting"
    /\ \E o \in Workers \ {w} :
        /\ workers[o].pc = "waiting"
        /\ CurrentRow(w).cmplid \in CmplidsOf(workers[o].pending)
        /\ CurrentRow(o).cmplid \in CmplidsOf(workers[w].pending)
    /\ workers' = [workers EXCEPT ![w] = InsertRaised(@)]
    /\ UNCHANGED <<pc, runs, backlog, flat_cmpl, flat_rcl, etl_state, recalls,
                   vehicle_risk_scores, alert_state, last, run, delivered,
                   alertLog, probe, derived, alerts>>

\* conn.commit() after executemany.
commit_complaints(w) ==
    /\ workers[w].pc = "inserting"
    /\ workers[w].next > Len(workers[w].rows_to_insert)
    /\ flat_cmpl' = flat_cmpl (+) workers[w].pending
    /\ workers' = [workers EXCEPT ![w] =
           [@ EXCEPT !.pc = "committed", !.pending = EmptyBag]]
    /\ UNCHANGED <<pc, runs, backlog, flat_rcl, etl_state, recalls,
                   vehicle_risk_scores, alert_state, last, run, delivered,
                   alertLog, probe, derived, alerts>>

\* sm.set("seen_odi_numbers", ...) with the process's own seen_odis.
set_seen_odis(w) ==
    /\ workers[w].pc = "committed"
    /\ etl_state' = WriteSeenOdis(etl_state, workers[w].seen_odis)
    /\ workers' = [workers EXCEPT ![w] =
           [@ EXCEPT !.pc = "done", !.outcome = "ok"]]
    /\ UNCHANGED <<pc, runs, backlog, flat_cmpl, flat_rcl, recalls,
                   vehicle_risk_scores, alert_state, last, run, delivered,
                   alertLog, probe, derived, alerts>>

\* ----------------------------- critical_vehicle_alert.main, two at a time
\* Each process runs main once; its queries, the send and update_hash are
\* steps of their own, and every statement sees what was committed before it.
AlertInFlight(w) == alerts[w].pc \in {"sending", "updating"}

\* The two queries, hash_payload, get_last_hash and the two early returns.
alert_reads(w) ==
    /\ alerts[w].pc = "start"
    /\ \E db \in {"ok", "read_failed"} :
        LET zero_recall == get_zero_recall_vehicles(vehicle_risk_scores)
            ratio_risk == get_ratio_critical_vehicles(vehicle_risk_scores)
            current_hash == hash_payload(NormalizedPayload(zero_recall, ratio_risk))
            last_hash == get_last_hash(alert_state)
            outcome == IF db = "read_failed" THEN "read_raised"
                       ELSE IF zero_recall = <<>> /\ ratio_risk = <<>> THEN "no_risk"
                       ELSE IF current_hash = last_hash THEN "no_change"
                       ELSE "none"
        IN alerts' = [alerts EXCEPT ![w] =
               [@ EXCEPT !.pc = IF outcome = "none" THEN "sending" ELSE "done",
                         !.current_hash = current_hash,
                         !.last_hash = IF db = "ok" THEN last_hash ELSE <<Absent>>,
                         !.overlapped = \E o \in Workers \ {w} : AlertInFlight(o),
                         !.outcome = outcome]]
    /\ UNCHANGED <<pc, runs, backlog, flat_cmpl, flat_rcl, etl_state, recalls,
                   vehicle_risk_scores, alert_state, last, run, delivered,
                   alertLog, probe, derived, workers>>

\* send_email(zero_recall, ratio_risk).
alert_sends(w) ==
    /\ alerts[w].pc = "sending"
    /\ \E creds \in BOOLEAN, smtp \in {"ok", "fail", "fail_after_send"} :
        LET mail == send_email(creds, smtp)
            raised == mail \in {"raised", "sent_raised"}
        IN /\ alerts' = [alerts EXCEPT ![w] =
                  [@ EXCEPT !.pc = IF raised THEN "done" ELSE "updating",
                            !.attempted = TRUE, !.creds = creds, !.smtp = smtp,
                            !.sent = (mail \in {"sent", "sent_raised"}),
                            !.outcome = IF raised THEN "send_raised"
                                        ELSE "none"]]
           /\ delivered' = IF mail \in {"sent", "sent_raised"}
                           THEN delivered \cup {alerts[w].current_hash}
                           ELSE delivered
    /\ UNCHANGED <<pc, runs, backlog, flat_cmpl, flat_rcl, etl_state, recalls,
                   vehicle_risk_scores, alert_state, last, run, alertLog, probe,
                   derived, workers>>

\* update_hash(current_hash) and the return of main.
alert_updates(w) ==
    /\ alerts[w].pc = "updating"
    /\ \E db \in {"ok", "update_failed"} :
        /\ alert_state' = IF db = "ok"
                          THEN update_hash(alert_state, alerts[w].current_hash)
                          ELSE alert_state
        /\ alerts' = [alerts EXCEPT ![w] =
               [@ EXCEPT !.pc = "done",
                         !.outcome = IF db = "update_failed" THEN "update_raised"
                                     ELSE IF alerts[w].sent THEN "notified"
                                     ELSE "no_credentials"]]
    /\ UNCHANGED <<pc, runs, backlog, flat_cmpl, flat_rcl, etl_state, recalls,
                   vehicle_risk_scores, delivered, last, run, alertLog, probe,
                   derived, workers>>

\* ------------------------------------------------ StateManager on its own
\* Keys and values of the calls: the date and the counter fetch_new_recalls
\* keeps, the counter as the int it passes and as text.
StateKeys == {"last_recall_fetch", "total_recalls_loaded"}
StateValues == {[int |-> 0], [int |-> 1], [str |-> "1"], [str |-> "2024-01-01"]}

\* sm.set(key, value). probe.written is, per key, the text of the latest
\* value set, Absent for a key never set.
state_set ==
    /\ pc = "idle"
    /\ \E key \in StateKeys, value \in StateValues :
        /\ etl_state' = StateManager_set(etl_state, key, value)
        /\ probe' = [op |-> "set", input |-> <<key, value>>,
                     before |-> etl_state,
                     written |-> [k \in StateKeys |->
                         IF k = key THEN PyStr(value)
                         ELSE IF probe.op \in {"set", "get"} THEN probe.written[k]
                         ELSE Absent]]
    /\ UNCHANGED <<pc, runs, backlog, flat_cmpl, flat_rcl, recalls,
                   vehicle_risk_scores, alert_state, last, run, delivered,
                   alertLog, derived, workers, alerts>>

\* sm.get(key)
state_get ==
    /\ pc = "idle"
    /\ \E key \in StateKeys :
        probe' = [op |-> "get", input |-> <<key>>, result |-> sm_get(etl_state, key),
                  before |-> etl_state,
                  written |-> IF probe.op \in {"set", "get"} THEN probe.written
                              ELSE [k \in StateKeys |-> Absent]]
    /\ UNCHANGED OtherVars


\* ------------------------------------------------ hash_payload on its own
\* Longest payload hashed.
MaxTuples == 2

\* Payload tuples (make, model, year, value, category) as main builds them;
\* the values are str() of a complaint count or of a rounded ratio.
PayloadTuples ==
    {"FORD", "KIA"} \X {"F-150"} \X {"2021"} \X {"250", "600", "250.0"}
        \X {"ZERO_RECALL", "RATIO_RISK"}
MetricValues == {t[4] : t \in PayloadTuples}
Payloads == UNION {[1..n -> PayloadTuples] : n \in 1..MaxTuples}


\* hash_payload(rows) of a payload.
hash_one_payload ==
    /\ probe.op = "none"
    /\ \E rows \in Payloads :
        probe' = [op |-> "hash_payload", input |-> rows,
                  digest |-> hash_payload(rows),
                  before |-> rows, beforeDigest |-> hash_payload(rows)]
    /\ UNCHANGED OtherVars

\* hash_payload of the last payload with the value of one tuple changed.
hash_changed_metric ==
    /\ probe.op # "none"
    /\ \E i \in DOMAIN probe.input :
       \E value \in MetricValues \ {probe.input[i][4]} :
        LET rows == [probe.input EXCEPT ![i][4] = value]
        IN probe' = [op |-> "changed_metric", input |-> rows,
                     digest |-> hash_payload(rows),
                     before |-> probe.input, beforeDigest |-> probe.digest]
    /\ UNCHANGED OtherVars

\* hash_payload of the last payload with its tuples in another order.
hash_reordered ==
    /\ probe.op # "none"
    /\ \E f \in Perms(DOMAIN probe.input) :
        LET rows == [i \in DOMAIN probe.input |-> probe.input[f[i]]]
        IN /\ rows # probe.input
           /\ probe' = [op |-> "reordered", input |-> rows,
                        digest |-> hash_payload(rows),
                        before |-> probe.input, beforeDigest |-> probe.digest]
    /\ UNCHANGED OtherVars

\* Payload tuples whose make or model holds one of the two separators.
SeparatorTuples ==
    {"MERCEDES", "MERCEDES-BENZ"} \X {"C", "BENZ-C", "C|D"} \X {"2021"}
        \X {"250"} \X {"ZERO_RECALL"}
SeparatorPayloads == UNION {[1..n -> SeparatorTuples] : n \in 1..MaxTuples}

\* hash_payload of two payloads, one after the other.
hash_two_payloads ==
    /\ probe.op = "none"
    /\ \E first \in SeparatorPayloads, second \in SeparatorPayloads :
        probe' = [op |-> "hash_two_payloads", input |-> <<first, second>>,
                  normalized |-> <<Normalized(first), Normalized(second)>>,
                  digest |-> <<hash_payload(first), hash_payload(second)>>]
    /\ UNCHANGED OtherVars

\* ---------------------------------------------- one API request on its own
\* fetch_recalls_for_vehicle(make, model, year) under every API answer.
request_recalls ==
    /\ \E src \in RecallSources, v \in Vehicles, http \in HttpOutcomes :
        probe' = [op |-> "fetch_recalls_for_vehicle", input |-> <<src, v>>,
                  http |-> http, call |-> fetch_recalls_for_vehicle(src, v, http)]
    /\ UNCHANGED OtherVars

\* fetch_complaints(make, model, year) under every API answer.
request_complaints ==
    /\ \E src \in ComplaintSources, v \in Vehicles, http \in HttpOutcomes :
        probe' = [op |-> "fetch_complaints", input |-> <<src, v>>,
                  http |-> http, call |-> fetch_complaints(src, v, http)]
    /\ UNCHANGED OtherVars

\* ------------------------------------------- insert_recalls on its own
\* Longest batch handed to insert_recalls.
MaxBatch == 2

\* Batches of recalls of V1 as fetch_new_recalls returns them: no campaign
\* number twice in one batch.
BatchCampaigns == {"21V001", "22V002", "23V003"}
BatchRecalls ==
    [NHTSACampaignNumber : BatchCampaigns, Make : {V1.make},
     Model : {V1.model}, ModelYear : {V1.year}]
Batches ==
    {rows \in UNION {[1..n -> BatchRecalls] : n \in 1..MaxBatch} :
        \A i, j \in DOMAIN rows :
            rows[i].NHTSACampaignNumber = rows[j].NHTSACampaignNumber => i = j}

\* insert_recalls(recalls) called on a batch, over the flat_rcl left by the
\* calls before it.
insert_recall_batch ==
    /\ pc = "idle"
    /\ \E rows \in Batches, failAt \in 0..MaxBatch, server \in BOOLEAN :
        LET eff == InsertRecallsEffect(flat_rcl, rows, TRUE, failAt, server)
        IN /\ failAt <= Len(rows)
           /\ failAt = 0 => ~server
           /\ flat_rcl' = eff.flat_rcl
           /\ probe' = [op |-> "insert_recalls", input |-> rows,
                        failAt |-> failAt, server |-> server,
                        before |-> flat_rcl, outcome |-> eff.outcome]
    /\ UNCHANGED <<pc, runs, backlog, flat_cmpl, etl_state, recalls,
                   vehicle_risk_scores, alert_state, last, run, delivered,
                   alertLog, derived, workers, alerts>>

\* ------------------------------- the loaders over content that changes
\* Recalls whose content differs under one campaign number: the API reports
\* a campaign for either model.
VariantRecalls ==
    [NHTSACampaignNumber : {"21V001", "22V002"}, Make : {V1.make},
     Model : {V1.model, V2.model}, ModelYear : {V1.year}]
VariantBatches ==
    {rows \in UNION {[1..n -> VariantRecalls] : n \in 1..MaxBatch} :
        \A i, j \in DOMAIN rows :
            rows[i].NHTSACampaignNumber = rows[j].NHTSACampaignNumber => i = j}

\* Pipeline runs whose store works, over a flat file and an API that give
\* different content for cmplid 1001.
LoadersEnv ==
    [AlertEnv EXCEPT !.cmplDb = {"ok", "set_failed"}, !.creds = {TRUE},
                     !.smtp = {"ok"}, !.alertDb = {"ok"}]

\* insert_recalls(recalls) called between pipeline runs.
insert_recalls_direct ==
    /\ pc = "idle"
    /\ \E rows \in VariantBatches, failAt \in 0..MaxBatch, server \in BOOLEAN :
        LET eff == InsertRecallsEffect(flat_rcl, rows, TRUE, failAt, server)
        IN /\ failAt <= Len(rows)
           /\ failAt = 0 => ~server
           /\ flat_rcl' = eff.flat_rcl
           /\ last' = [op |-> "insert_recalls", outcome |-> eff.outcome]
    /\ run' = NoRun
    /\ UNCHANGED <<pc, runs, backlog, flat_cmpl, etl_state, recalls,
                   vehicle_risk_scores, alert_state, delivered, alertLog,
                   probe, derived, workers, alerts>>


\* ------------------------------------------------------------------ Spec
Next(env) ==
    \/ load_complaints(env)
    \/ fetch_new_recalls(env)
    \/ insert_recalls(env)
    \/ refresh_analytical_tables(env)
    \/ run_alerts(env)
    \/ load_complaints_to_db(env)

\* The program under every environment, and the two parts of it the checks
\* explore exhaustively; each behaviour of a part is a behaviour of Spec.
Spec == Init /\ [][Next(FullEnv)]_vars
SpecIngest == InitWith(IngestBacklogs) /\ [][Next(IngestEnv)]_vars
SpecAlert == InitWith(AlertBacklogs) /\ [][Next(AlertEnv)]_vars

\* run_etl.main and the entry points, with a failure possible at every stage.
SpecStages == InitWith(IngestBacklogs) /\ [][Next(StagesEnv)]_vars

\* The three loaders, in pipeline runs and called on their own.
SpecLoaders ==
    InitWith(IngestBacklogs) /\ [][Next(LoadersEnv) \/ insert_recalls_direct]_vars

\* Every sequence of StateManager.set and StateManager.get calls.
SpecState == InitWith(IngestBacklogs) /\ [][state_set \/ state_get]_vars

\* Two alert runs in every interleaving of their steps, one after the other
\* included.
SpecAlertPair ==
    InitWith(AlertBacklogs)
        /\ [][\E w \in Workers :
                 alert_reads(w) \/ alert_sends(w) \/ alert_updates(w)]_vars

\* Two load_complaints processes in every interleaving of their statements.
SpecConcurrent ==
    InitWith(IngestBacklogs)
        /\ [][\E w \in Workers :
                 \/ begin_load_complaints(w)
                 \/ insert_statement(w)
                 \/ insert_resumes(w)
                 \/ deadlock_detected(w)
                 \/ commit_complaints(w)
                 \/ set_seen_odis(w)]_vars

\* insert_recalls over every bounded batch and every failing row.
SpecRecalls == InitWith(IngestBacklogs) /\ [][insert_recall_batch]_vars

\* Single requests to the two API endpoints.
SpecFetch == InitWith(IngestBacklogs) /\ [][request_recalls \/ request_complaints]_vars

\* hash_payload over every bounded payload and its single changes.
SpecHash == InitWith(IngestBacklogs) /\ [][hash_one_payload \/ hash_changed_metric \/ hash_reordered]_vars

\* Pipeline runs that complete, over recall answers of two campaigns.
SpecRecallCount == InitWith(IngestBacklogs) /\ [][Next(CountEnv)]_vars

\* hash_payload over pairs of payloads with separators in their fields.
SpecCanon == InitWith(IngestBacklogs) /\ [][hash_two_payloads]_vars

\* The rebuild of vehicle_risk_scores over every bounded vehicle_risk_summary.
SpecRisk == InitWith(IngestBacklogs) /\ [][rebuild_vehicle_risk_scores]_vars

\* The qualifying set changing between runs of the alert entry point.
SpecAlertCycle == InitWith(IngestBacklogs) /\ [][rebuild_between_alerts \/ alert_between_rebuilds]_vars

TypeOK ==
    /\ pc \in {"idle", "step2", "step3", "step4", "step5"}
    /\ runs \in 0..MaxRuns

\* ================================================================ claims
\* Shared vocabulary of the claims.
OdiTexts == {ToString(n) : n \in OdiNumbers \cup ConcurrentOdiNumbers} \cup {"None"}
CmplIds == Column(flat_cmpl, "cmplid")
Campnos == Column(flat_rcl, "CAMPNO")
StoredTimes(t, col, id) == CountRows(t, {r \in Rows(t) : r[col] = id})
UniqueKey(t, col) == \A id \in Column(t, col) : StoredTimes(t, col, id) = 1
Qualifying(risk) ==
    get_zero_recall_vehicles(risk) # <<>> \/ get_ratio_critical_vehicles(risk) # <<>>
CurrentDigest(risk) ==
    hash_payload(NormalizedPayload(get_zero_recall_vehicles(risk),
                                   get_ratio_critical_vehicles(risk)))
StoredDigestIs(st, digest) == AlertName \in DOMAIN st /\ st[AlertName] = digest
AfterAlertRun == last.op = "run_alerts" /\ alertLog.outcome # "read_raised"

\* C1: after any sequence of runs of load_complaints, load_complaints_to_db
\* and insert_recalls (aborted and re-run ones included, with identifiers
\* repeated inside a batch or across vehicles) no two rows of flat_cmpl share
\* a cmplid and no two rows of flat_rcl share a CAMPNO.
C1_NoDuplicateKeys ==
    UniqueKey(flat_cmpl, "cmplid") /\ UniqueKey(flat_rcl, "CAMPNO")

\* C1 witness: load_complaints fetched and queued 1001, which the flat-file
\* load had already stored (the flat-file row has no CDESCR).
C1_Witness ==
    /\ last.op = "load_complaints" /\ last.outcome = "ok"
    /\ "1001" \in run.cGot /\ run.cNew
    /\ \E r \in Rows(flat_cmpl) : r.cmplid = "1001" /\ r.cdescr = Absent

\* C2 (as claimed): the digest stored for the alert is absent or is the
\* digest of a payload whose notification was delivered.
C2_StoredDigestWasDelivered ==
    AlertName \in DOMAIN alert_state => alert_state[AlertName] \in delivered

\* C3: every identifier of the stored seen_odi_numbers is the cmplid of a row
\* of flat_cmpl, and a load_complaints whose bulk insert or commit raises
\* leaves etl_state as it was.
C3_SeenOdisAreStored ==
    /\ [](SeenOdis(etl_state) \subseteq CmplIds)
    /\ [][(last'.op = "load_complaints" /\ last'.outcome = "insert_raised")
            => etl_state' = etl_state]_vars

\* C3 witness: a bulk insert raised in a run that started with a non-empty
\* seen-set.
C3_Witness ==
    /\ last.op = "load_complaints" /\ last.outcome = "insert_raised"
    /\ SeenOdis(etl_state) # {}

\* C4 (as claimed): at every run boundary every campaign number of the stored
\* seen_campaign_numbers is the CAMPNO of a row of flat_rcl.
C4_SeenCampaignsAreStored ==
    pc = "idle" => SeenCampaigns(etl_state) \subseteq Campnos

\* C5 (as claimed): when a run has completed its ingestion steps without a
\* store failure, every identified complaint and recall the source returned
\* to it is stored exactly once, whatever happened to earlier runs.
C5_FetchedIsStoredOnce ==
    (pc = "step4" /\ run.ingested) =>
        /\ \A id \in run.cGot \ {"None"} : StoredTimes(flat_cmpl, "cmplid", id) = 1
        /\ \A c \in run.rGot : StoredTimes(flat_rcl, "CAMPNO", c) = 1

\* C6: when two successive pipeline runs complete their ingestion steps and
\* the source returned the same identifiers to both, the second finds nothing
\* new and flat_cmpl and flat_rcl hold the same rows, as many times, as after
\* the first.
C6_SecondIngestAddsNothing ==
    (/\ pc = "step4" /\ run.ingested /\ run.prevOk
     /\ run.cGot = run.prevC /\ run.rGot = run.prevR)
    => (/\ flat_cmpl = run.cmpl0 /\ flat_rcl = run.rcl0
        /\ ~run.cNew /\ last.outcome = "nothing")

\* C6 witness: the second of two such runs, both of which were returned a
\* complaint and a recall.
C6_Witness ==
    /\ pc = "step4" /\ run.ingested /\ run.prevOk
    /\ run.cGot = run.prevC /\ run.rGot = run.prevR
    /\ "1001" \in run.cGot /\ run.rGot # {}
    /\ "1001" \in CmplIds /\ Campnos # {}

\* C7 (as claimed): two alert runs in succession over an unchanged
\* vehicle_risk_scores with a non-empty qualifying set: the first sends the
\* one notification, the second none.
C7_OneNotificationFromFirstRun ==
    (/\ last.op = "run_alerts" /\ alertLog.n = 2 /\ alertLog.same
     /\ Qualifying(vehicle_risk_scores))
    => (alertLog.prevSent /\ ~alertLog.sent)

\* C7 (amended): two alert runs in succession over an unchanged
\* vehicle_risk_scores with a non-empty qualifying set, the first of which
\* delivered its notification and stored the digest: the first sent the one
\* notification, the second none.
C7_OneNotificationWhenFirstRunDelivers ==
    (/\ last.op = "run_alerts" /\ alertLog.n = 2 /\ alertLog.same
     /\ Qualifying(vehicle_risk_scores)
     /\ alertLog.prevOutcome = "notified")
    => (alertLog.prevSent /\ ~alertLog.sent)

\* C7 witness: the first run delivered and stored the digest, the second
\* found no change and sent nothing.
C7_Witness ==
    /\ last.op = "run_alerts" /\ alertLog.n = 2 /\ alertLog.same
    /\ Qualifying(vehicle_risk_scores)
    /\ alertLog.prevOutcome = "notified" /\ alertLog.prevSent
    /\ alertLog.outcome = "no_change" /\ ~alertLog.sent
    /\ Cardinality(delivered) = 1

C9_AttemptIffDigestChanged ==
    AfterAlertRun =>
        /\ alertLog.attempted <=>
              (/\ Qualifying(vehicle_risk_scores)
               /\ ~StoredDigestIs(alertLog.before,
                                  CurrentDigest(vehicle_risk_scores)))
        /\ ~alertLog.attempted => (~alertLog.sent /\ alert_state = alertLog.before)

\* C9 witness: the first run ever, with a qualifying vehicle and no stored
\* digest, attempted a notification.
C9_Witness ==
    /\ AfterAlertRun /\ alertLog.n = 1 /\ alertLog.attempted
    /\ alertLog.before = NoRows /\ Qualifying(vehicle_risk_scores)

\* C10: a failed fetch of one vehicle (exception or non-200) never ends the
\* run: load_complaints and fetch_new_recalls are not aborted by it, and the
\* identified records the other vehicles returned are stored once the run's
\* persisting step has succeeded (the recalls that were new to the run).
C10_FetchFailureIsContained ==
    /\ last.outcome # "fetch_raised"
    /\ (last.op = "load_complaints" /\ Returned(last.outcome))
          => (run.cGot \ {"None"}) \subseteq CmplIds
    /\ (last.op = "insert_recalls" /\ last.outcome \in {"ok", "nothing"})
          => (run.rGot \ run.rSeen0) \subseteq Campnos

\* C10 witness: in one run a vehicle's complaint fetch and a vehicle's recall
\* fetch failed, and the complaint and the recall the other fetches returned
\* are stored when the run reaches the refresh.
C10_Witness ==
    /\ last.op = "insert_recalls" /\ last.outcome = "ok" /\ pc = "step4"
    /\ run.cFailed /\ run.rFailed
    /\ "1001" \in run.cGot /\ "1001" \in CmplIds
    /\ "21V001" \in run.rGot /\ "21V001" \in Campnos

\* The precedence rule of the risk category, branch by branch.
PrecedenceRule(c, r) ==
    CASE r = 0 /\ c > 500 -> "CRITICAL"
      [] r = 0 /\ c <= 500 /\ c > 200 -> "HIGH"
      [] ~(r = 0 /\ c > 200) /\ c > r * 10 -> "MEDIUM"
      [] OTHER -> "LOW"
ScoreRows == Range(vehicle_risk_scores)
Rebuilt == probe.op = "rebuild_vehicle_risk_scores"
ScoreRowOf(x) ==
    {r \in ScoreRows : r.MAKETXT = x.MAKETXT /\ r.MODELTXT = x.MODELTXT
                         /\ r.YEARTXT = x.YEARTXT}

\* C11: every row the risk-score rebuild writes carries the category the
\* precedence rule gives its (complaints, recalls): CRITICAL for 600/0, HIGH
\* for 250/0, MEDIUM for 1000/50, LOW for 300/100, whatever the row order;
\* every summary row above the floor is written with its counts.
C11_CategoryFollowsPrecedence ==
    Rebuilt =>
        /\ \A r \in ScoreRows :
              /\ r.risk_category = PrecedenceRule(r.total_complaints, r.total_recalls)
              /\ (r.total_complaints = 600 /\ r.total_recalls = 0)
                    => r.risk_category = "CRITICAL"
              /\ (r.total_complaints = 250 /\ r.total_recalls = 0)
                    => r.risk_category = "HIGH"
              /\ (r.total_complaints = 1000 /\ r.total_recalls = 50)
                    => r.risk_category = "MEDIUM"
              /\ (r.total_complaints = 300 /\ r.total_recalls = 100)
                    => r.risk_category = "LOW"
        /\ \A x \in probe.input : x.total_complaints > 50 =>
              \E r \in ScoreRowOf(x) :
                  /\ r.total_complaints = x.total_complaints
                  /\ r.total_recalls = x.total_recalls

\* C11 witness: a rebuilt table of the 600/0 vehicle, CRITICAL, followed by
\* the 300/100 vehicle, LOW.
C11_Witness ==
    /\ Rebuilt /\ Len(vehicle_risk_scores) = 2
    /\ vehicle_risk_scores[1].total_complaints = 600
    /\ vehicle_risk_scores[1].risk_category = "CRITICAL"
    /\ vehicle_risk_scores[2].total_complaints = 300
    /\ vehicle_risk_scores[2].total_recalls = 100
    /\ vehicle_risk_scores[2].risk_category = "LOW"

\* C12 (as claimed): a vehicle-year with 2 complaints and 0 recalls gets a
\* row with complaints = 2, recalls = 0 and category LOW.
C12_TwoComplaintsRowIsLow ==
    Rebuilt =>
        \A x \in probe.input :
            (x.total_complaints = 2 /\ x.total_recalls = 0) =>
                \E r \in ScoreRowOf(x) :
                    /\ r.total_complaints = 2 /\ r.total_recalls = 0
                    /\ r.risk_category = "LOW"

\* C12 (amended): a vehicle-year with at most 50 complaints, 2 complaints and
\* 0 recalls included, gets no row; a zero-recall row is never LOW, and with
\* at most 200 complaints it is MEDIUM.
C12_BelowFloorNoRowZeroRecallMedium ==
    Rebuilt =>
        /\ \A x \in probe.input : x.total_complaints <= 50 => ScoreRowOf(x) = {}
        /\ \A r \in ScoreRows : r.total_recalls = 0 =>
              /\ r.risk_category # "LOW"
              /\ r.total_complaints <= 200 => r.risk_category = "MEDIUM"

\* C12 witness: the summary holds a 2/0 vehicle and a 200/0 vehicle; the
\* rebuilt table is the one MEDIUM row of the second.
C12_Witness ==
    /\ Rebuilt
    /\ \E x \in probe.input : x.total_complaints = 2 /\ x.total_recalls = 0
    /\ Len(vehicle_risk_scores) = 1
    /\ vehicle_risk_scores[1].total_complaints = 200
    /\ vehicle_risk_scores[1].total_recalls = 0
    /\ vehicle_risk_scores[1].risk_category = "MEDIUM"
\* vehicle_risk_scores is the table the CREATE TABLE ... AS of the refresh
\* builds from the raw tables now stored.
RiskScoresAreFresh ==
    vehicle_risk_scores \in
        RiskScoreTables(vehicle_risk_summary(backlog, flat_cmpl, flat_rcl))
RefreshDone == last.op = "refresh_analytical_tables"
\* The yearly_trends row of some year counts fewer complaints than are now
\* stored for that year: the table was built before a complaint was stored.
YearlyTrendsBehind ==
    \E t \in derived.tables["yearly_trends"] :
        t.total_complaints
            < SumComplaints(backlog, flat_cmpl, {v \in Vehicles : v.year = t.year})

\* C13: a refresh in which a drop or rebuild statement raises leaves every
\* one of the six derived tables exactly as it was before the refresh
\* started, and no state shows one of them dropped.
C13_RefreshIsAllOrNothing ==
    /\ [](derived.dropped = {})
    /\ [][(last'.op = "refresh_analytical_tables" /\ last'.outcome = "raised")
            => (vehicle_risk_scores' = vehicle_risk_scores /\ derived' = derived)]_vars

\* C13 witness: a statement of the refresh raised after the run had stored a
\* new complaint; all five other tables exist, and yearly_trends still counts
\* the complaints of before the run.
C13_Witness ==
    /\ RefreshDone /\ last.outcome = "raised"
    /\ "1001" \in run.cGot /\ "1001" \in CmplIds
    /\ derived.dropped = {} /\ DOMAIN derived.tables = OtherDerived
    /\ YearlyTrendsBehind

\* C14: within one invocation the stages run in the order load_complaints,
\* fetch_new_recalls, insert_recalls, refresh_analytical_tables, run_alerts;
\* when the alert stage is due, and when it has run as step 5, the refresh of
\* that invocation has committed and vehicle_risk_scores is the table it
\* built from the raw tables.
C14_StagesRunInOrder ==
    /\ [](/\ pc = "step2" => last.op = "load_complaints"
          /\ pc = "step3" => last.op = "fetch_new_recalls"
          /\ pc = "step4" => last.op = "insert_recalls"
          /\ pc = "step5" => (RefreshDone /\ last.outcome = "ok" /\ RiskScoresAreFresh)
          /\ (last.op = "run_alerts" /\ alertLog.inPipeline) => RiskScoresAreFresh)
    /\ [][/\ last'.op = "fetch_new_recalls" => last.op = "load_complaints"
          /\ last'.op = "insert_recalls" => last.op = "fetch_new_recalls"
          /\ last'.op = "refresh_analytical_tables" => last.op = "insert_recalls"
          /\ (last'.op = "run_alerts" /\ alertLog'.inPipeline)
                => (RefreshDone /\ last.outcome = "ok")
          /\ last'.op \in {"fetch_new_recalls", "insert_recalls",
                            "refresh_analytical_tables"} => runs' = runs
          /\ (last'.op = "run_alerts" /\ alertLog'.inPipeline) => runs' = runs]_vars

\* C14 witness: step 5 delivered the alert for a table that the refresh of
\* the same invocation had changed, after the run stored a recall.
C14_Witness ==
    /\ last.op = "run_alerts" /\ alertLog.inPipeline
    /\ alertLog.outcome = "notified" /\ ~alertLog.same
    /\ "21V001" \in run.rGot /\ "21V001" \in Campnos
    /\ \E r \in ScoreRows : r.total_recalls = 1
    /\ StoredDigestIs(alert_state, CurrentDigest(vehicle_risk_scores))

\* C15: a stage that raises ends the invocation: the next step taken, if
\* any, starts a new invocation, so after a failed refresh no alert of that
\* invocation is evaluated or sent; and the raising stage leaves in place
\* what the earlier stages committed.
C15_ErrorAbortsLaterStages ==
    /\ [](~Returned(last.outcome) => pc = "idle")
    /\ [][~Returned(last.outcome) => runs' = runs + 1]_vars
    /\ [][(~Returned(last'.outcome) /\ last'.op \in
              {"fetch_new_recalls", "insert_recalls",
               "refresh_analytical_tables", "run_alerts"})
            => /\ flat_cmpl' = flat_cmpl
               /\ last'.op # "fetch_new_recalls" =>
                     SeenCampaigns(etl_state') = SeenCampaigns(etl_state)
               /\ last'.op \in {"refresh_analytical_tables", "run_alerts"} =>
                     (flat_rcl' = flat_rcl /\ etl_state' = etl_state)
               /\ last'.op = "refresh_analytical_tables" =>
                     (alert_state' = alert_state /\ delivered' = delivered
                        /\ alertLog'.n = alertLog.n)
               /\ last'.op = "run_alerts" =>
                     (vehicle_risk_scores' = vehicle_risk_scores
                        /\ derived' = derived)]_vars

\* C15 witness: the refresh raised in a run that had stored a complaint and
\* a recall; both are in place, the run is over and no alert was evaluated.
C15_Witness ==
    /\ RefreshDone /\ last.outcome = "raised" /\ pc = "idle"
    /\ "1001" \in run.cGot /\ "1001" \in CmplIds
    /\ "21V001" \in run.rGot /\ "21V001" \in Campnos
    /\ alertLog.n = 0 /\ delivered = {}
\* C16: the digest of a payload differs from the digest of the payload it
\* becomes when the value of one tuple is changed, and from the digest of
\* the payload with its tuples in another order.
C16_DigestSeesValueAndOrder ==
    probe.op \in {"changed_metric", "reordered"} =>
        /\ probe.input # probe.before
        /\ probe.digest # probe.beforeDigest
        /\ probe.digest = hash_payload(probe.input)
        /\ probe.beforeDigest = hash_payload(probe.before)

\* C16 witness: two tuples that differ in their value only were swapped,
\* and the digest changed.
C16_Witness ==
    /\ probe.op = "reordered" /\ Len(probe.input) = 2
    /\ probe.input[1] = probe.before[2] /\ probe.input[2] = probe.before[1]
    /\ probe.input[1][4] = "250" /\ probe.input[2][4] = "600"
    /\ probe.input[1][1] = probe.input[2][1]
    /\ probe.input[1][5] = probe.input[2][5]
    /\ probe.digest # probe.beforeDigest
\* C17: a recall request that failed was made again at least once before
\* the vehicle was given up, and a complaint request is made exactly once.
C17_FailedRecallFetchIsRetried ==
    /\ (probe.op = "fetch_recalls_for_vehicle" /\ probe.http # "200")
           => probe.call.requests > 1
    /\ probe.op = "fetch_complaints" => probe.call.requests = 1
\* C18: after insert_recalls met a row whose insert failed, every other row
\* of the batch is stored.
C18_OnlyFailedRowIsSkipped ==
    (probe.op = "insert_recalls" /\ probe.failAt > 0) =>
        \A i \in DOMAIN probe.input \ {probe.failAt} :
            probe.input[i].NHTSACampaignNumber \in Campnos
\* C19: an alert run without notification credentials, whose store works,
\* sends nothing and returns without raising; as step 5 of the pipeline it
\* lets the invocation end normally, and the rest of the step still takes
\* place (the digest of the qualifying set is stored).
C19_MissingCredentialsOnlySkipNotify ==
    (last.op = "run_alerts" /\ ~alertLog.creds /\ alertLog.db = "ok") =>
        /\ ~alertLog.sent
        /\ Returned(alertLog.outcome)
        /\ alertLog.outcome \in {"no_risk", "no_change", "no_credentials"}
        /\ pc = "idle"
        /\ alertLog.outcome = "no_credentials" =>
               /\ alertLog.attempted
               /\ StoredDigestIs(alert_state, CurrentDigest(vehicle_risk_scores))

\* C19 witness: step 5 of a pipeline run reached the notify step without
\* credentials, and the invocation ended with nothing delivered.
C19_Witness ==
    /\ last.op = "run_alerts" /\ alertLog.inPipeline
    /\ ~alertLog.creds /\ alertLog.db = "ok"
    /\ alertLog.outcome = "no_credentials"
    /\ ~alertLog.sent /\ delivered = {}
    /\ pc = "idle"
\* C20: when both concurrent load_complaints processes have finished and
\* both had queued the same identifier, flat_cmpl holds exactly one row of
\* that identifier and no process was ended by an exception of its insert.
C20_ConcurrentDuplicateIsNoOp ==
    (/\ \A w \in Workers : workers[w].pc = "done"
     /\ \E id \in OdiTexts :
            \A w \in Workers :
                \E i \in DOMAIN workers[w].rows_to_insert :
                    workers[w].rows_to_insert[i].cmplid = id)
    => /\ \A id \in OdiTexts :
            (\A w \in Workers :
                \E i \in DOMAIN workers[w].rows_to_insert :
                    workers[w].rows_to_insert[i].cmplid = id)
            => StoredTimes(flat_cmpl, "cmplid", id) = 1
       /\ \A w \in Workers : workers[w].outcome # "insert_raised"
\* Both alert processes delivered the notification of the same payload after
\* reading the same stored digest.
DoubleSend ==
    /\ \A w \in Workers : alerts[w].sent
    /\ \A w, o \in Workers :
           /\ alerts[w].current_hash = alerts[o].current_hash
           /\ alerts[w].last_hash = alerts[o].last_hash
\* No alert process read while the other was between its read and its return.
Serialized == \A w \in Workers : ~alerts[w].overlapped

\* C21 (as claimed): two alert runs that do not overlap never both deliver
\* the notification of the same payload.
C21_SerializedNeverDoubleSends == Serialized => ~DoubleSend

\* C21 (amended): once a run has read a stored digest that differs from the
\* payload's, its delivery depends on its credentials and SMTP only, whatever
\* the other run does; and two runs that do not overlap both deliver the same
\* payload only when the first raised after its delivery, in send_email
\* itself or in update_hash.
C21_DoubleSendNeedsOverlapOrFailedUpdate ==
    /\ \A w \in Workers :
           /\ alerts[w].attempted =>
                  (alerts[w].sent <=>
                      (alerts[w].creds
                         /\ alerts[w].smtp \in {"ok", "fail_after_send"}))
           /\ alerts[w].pc \in {"sending", "updating"} =>
                  alerts[w].current_hash # alerts[w].last_hash
    /\ (Serialized /\ DoubleSend) =>
           \E w \in Workers :
               /\ alerts[w].sent
               /\ alerts[w].outcome \in {"update_raised", "send_raised"}

\* C21 witness: two overlapping runs, no failure anywhere, both read the same
\* old digest and both delivered the same payload.
C21_Witness ==
    /\ DoubleSend /\ ~Serialized
    /\ \A w \in Workers : alerts[w].pc = "done" /\ alerts[w].outcome = "notified"
    /\ StoredDigestIs(alert_state, alerts["A"].current_hash)
\* The identifiers process w queued.
QueuedBy(w) ==
    {workers[w].rows_to_insert[i].cmplid : i \in DOMAIN workers[w].rows_to_insert}

\* C22: each load_complaints process writes back the seen-set it loaded plus
\* the identifiers it queued itself, and the stored seen-set is the set of the
\* process that wrote last, not the union: after two processes that loaded
\* the same seen-set and queued different identifiers, the stored seen-set
\* lacks what the earlier writer recorded.
C22_LaterWriteOverwritesSeenSet ==
    /\ \A w \in Workers :
           workers[w].pc # "start" =>
               workers[w].seen_odis = workers[w].loaded \cup QueuedBy(w)
    /\ (\A w \in Workers : workers[w].outcome = "ok") =>
           \E w \in Workers : SeenOdis(etl_state) = workers[w].seen_odis
    /\ (/\ \A w \in Workers : workers[w].outcome = "ok"
        /\ workers["A"].loaded = workers["B"].loaded
        /\ QueuedBy("A") \cap QueuedBy("B") = {})
       => \E w \in Workers : QueuedBy(w) \cap SeenOdis(etl_state) = {}

\* C22 witness: both processes loaded the empty seen-set, A queued 1001 and
\* B queued 1002, both rows are stored, and the seen-set B wrote last has
\* lost 1001.
C22_Witness ==
    /\ \A w \in Workers : workers[w].outcome = "ok" /\ workers[w].loaded = {}
    /\ QueuedBy("A") = {"1001"} /\ QueuedBy("B") = {"1002"}
    /\ {"1001", "1002"} \subseteq CmplIds
    /\ SeenOdis(etl_state) = {"1002"}
\* C23: get(k) returns the text of the value of the latest set on k and
\* None for a key never set; etl_state holds at most one row per key; and a
\* set on k leaves the value of every other key as it was.
C23_StateIsUpsertMap ==
    /\ \A k \in StateKeys : CountRows(etl_state, StateRows(etl_state, k)) <= 1
    /\ probe.op \in {"set", "get"} =>
           \A k \in StateKeys : sm_get(etl_state, k) = probe.written[k]
    /\ probe.op = "get" =>
           /\ probe.result = probe.written[probe.input[1]]
           /\ etl_state = probe.before
    /\ probe.op = "set" =>
           /\ sm_get(etl_state, probe.input[1]) = PyStr(probe.input[2])
           /\ \A k \in StateKeys \ {probe.input[1]} :
                  sm_get(etl_state, k) = sm_get(probe.before, k)

\* C23 witness: the int 1 was set over an earlier value of the counter; the
\* counter reads "1", the date set before is untouched, one row per key.
C23_Witness ==
    /\ probe.op = "set" /\ probe.input = <<"total_recalls_loaded", [int |-> 1]>>
    /\ sm_get(probe.before, "total_recalls_loaded") = "0"
    /\ sm_get(etl_state, "total_recalls_loaded") = "1"
    /\ sm_get(etl_state, "last_recall_fetch") = "2024-01-01"
    /\ BagCardinality(etl_state) = 2
\* The stored value of a seen-set key, and of the recall counter.
StoredSet(st, key) == IF sm_has(st, key) THEN sm_get(st, key) ELSE {}
StoredTotal(st) ==
    IF sm_has(st, "total_recalls_loaded")
    THEN ParseInt(sm_get(st, "total_recalls_loaded")) ELSE 0

\* C24: no step of any sequence of sequential runs replaces seen_odi_numbers
\* or seen_campaign_numbers by a value that lacks an identifier of the old
\* one, or lowers total_recalls_loaded.
C24_BookkeepingIsMonotonic ==
    [][/\ StoredSet(etl_state, "seen_odi_numbers")
             \subseteq StoredSet(etl_state', "seen_odi_numbers")
       /\ StoredSet(etl_state, "seen_campaign_numbers")
             \subseteq StoredSet(etl_state', "seen_campaign_numbers")
       /\ StoredTotal(etl_state) <= StoredTotal(etl_state')]_vars

\* C24 witness: a second load_complaints fetched only an identifier the
\* first had not, and wrote a seen-set that holds both; a recall was counted.
C24_Witness ==
    /\ last.op = "load_complaints" /\ last.outcome = "ok"
    /\ run.cGot = {"None"}
    /\ StoredSet(etl_state, "seen_odi_numbers") = {"1001", "None"}
    /\ StoredSet(etl_state, "seen_campaign_numbers") = {"21V001"}
    /\ StoredTotal(etl_state) = 1
\* C25: no step changes or removes a stored complaint or recall row: the row
\* of an identifier after the step is the row it was before.
C25_StoredRowsAreImmutable ==
    [][/\ \A r \in Rows(flat_cmpl) :
             /\ CopiesIn(r, flat_cmpl') = CopiesIn(r, flat_cmpl)
             /\ \A x \in Rows(flat_cmpl') : x.cmplid = r.cmplid => x = r
       /\ \A r \in Rows(flat_rcl) :
             /\ CopiesIn(r, flat_rcl') = CopiesIn(r, flat_rcl)
             /\ \A x \in Rows(flat_rcl') : x.CAMPNO = r.CAMPNO => x = r]_vars

\* C25 witness: the flat file stored cmplid 1001 without a description;
\* load_complaints then fetched 1001 with one, unseen, and queued it; the
\* stored row is still the file's. Campaign 21V001 is stored for one model.
C25_Witness ==
    /\ last.op = "load_complaints" /\ last.outcome = "ok"
    /\ run.cGot = {"1001"} /\ run.cNew
    /\ Rows(flat_cmpl) = {[cmplid |-> "1001", maketxt |-> V1.make,
                           modeltxt |-> V1.model, yeartxt |-> V1.year,
                           cdescr |-> Absent, compdesc |-> "ENGINE",
                           crash |-> "N", injured |-> 0]}
    /\ \E r \in Rows(flat_rcl) : r.CAMPNO = "21V001" /\ r.MODELTXT = V2.model
\* C26: a fetched complaint without an odiNumber leaves no row in flat_cmpl
\* and no entry in the stored seen-set: no cmplid and no seen identifier is
\* the text of a missing value.
C26_ComplaintWithoutOdiIsSkipped ==
    /\ "None" \notin CmplIds
    /\ "None" \notin StoredSet(etl_state, "seen_odi_numbers")
\* C27: an alert run over a table in which no vehicle qualifies attempts no
\* notification and leaves alert_state as it found it; and when a run
\* notified a payload A, the next run found no qualifying vehicle and the run
\* after that found the payload A again, neither of the two later runs sent
\* or attempted a notification.
EmptyDigest == hash_payload(NormalizedPayload(<<>>, <<>>))
C27_EmptySetLeavesAlertStateAlone ==
    last.op = "run_alerts" =>
        /\ ~Qualifying(vehicle_risk_scores) =>
              /\ ~alertLog.attempted
              /\ ~alertLog.sent
              /\ alert_state = alertLog.before
        /\ ( /\ alertLog.prev2Outcome = "notified"
             /\ alertLog.prevDigest = EmptyDigest
             /\ alertLog.digest = alertLog.prev2Digest ) =>
              /\ ~alertLog.attempted
              /\ ~alertLog.sent
              /\ ~alertLog.prevSent
              /\ StoredDigestIs(alert_state, alertLog.prev2Digest)
C27_Witness ==
    /\ last.op = "run_alerts"
    /\ alertLog.prev2Outcome = "notified"
    /\ alertLog.prevOutcome = "no_risk"
    /\ alertLog.prevDigest = EmptyDigest
    /\ alertLog.digest = alertLog.prev2Digest
    /\ alertLog.outcome = "no_change"
    /\ Qualifying(vehicle_risk_scores)
    /\ alertLog.digest \in delivered

\* C28: two payloads that differ in a field, in the number of tuples or in
\* their order have different canonical strings and different digests, also
\* when a make or model holds "-" or "|".
C28_DistinctPayloadsDistinctDigests ==
    probe.op = "hash_two_payloads" =>
        (probe.input[1] # probe.input[2] =>
            /\ probe.normalized[1] # probe.normalized[2]
            /\ probe.digest[1] # probe.digest[2])

\* C29: from an empty etl_state and over completed fetch_new_recalls runs,
\* total_recalls_loaded always equals the number of campaign numbers in
\* seen_campaign_numbers, and a run that finds no new recall leaves the rows
\* of seen_campaign_numbers, last_recall_fetch and total_recalls_loaded as
\* they were (none is created, none is rewritten).
RecallStateKeys ==
    {"seen_campaign_numbers", "last_recall_fetch", "total_recalls_loaded"}
C29_CounterEqualsSeenCampaigns ==
    /\ [](StoredTotal(etl_state)
            = Cardinality(StoredSet(etl_state, "seen_campaign_numbers")))
    /\ [][(last'.op = "fetch_new_recalls" /\ last'.outcome = "ok"
             /\ recalls' = <<>>)
           => \A key \in RecallStateKeys :
                 StateRows(etl_state', key) = StateRows(etl_state, key)]_vars
C29_Witness ==
    /\ last.op = "fetch_new_recalls" /\ last.outcome = "ok"
    /\ runs = 2
    /\ Len(recalls) = 1
    /\ StoredSet(etl_state, "seen_campaign_numbers") = {"21V001", "21V002"}
    /\ StoredTotal(etl_state) = 2
    /\ sm_get(etl_state, "last_recall_fetch") = "2"

====
